---------------------------- MODULE Spec2Model ----------------------------
(***************************************************************************)
(* Model of toggl-to-tempo-sync: the sync record store (sync_tracker.py),  *)
(* the entry grouper (toggle_api.py) and the sync loop (sync.py).          *)
(*                                                                         *)
(* Python strings are sequences of one-character strings, so that          *)
(* formatting, joining and splitting are computed and not assumed.         *)
(* None is the empty set and a present optional value x is {x}.            *)
(***************************************************************************)
EXTENDS Integers, Sequences, FiniteSets, TLC

None == {}
Some(x) == {x}

(***************************************************************************)
(* Python string and list primitives.                                      *)
(***************************************************************************)
DigitChars == <<"0", "1", "2", "3", "4", "5", "6", "7", "8", "9">>

RECURSIVE NatToStr(_)
NatToStr(n) ==
    IF n < 10 THEN <<DigitChars[n + 1]>>
    ELSE NatToStr(n \div 10) \o <<DigitChars[(n % 10) + 1]>>

\* str(n) / f"{n}" of a Python int
IntToStr(n) == IF n < 0 THEN <<"-">> \o NatToStr(0 - n) ELSE NatToStr(n)

RECURSIVE InsertSorted(_, _)
InsertSorted(x, s) ==
    IF s = <<>> THEN <<x>>
    ELSE IF x <= Head(s) THEN <<x>> \o s
    ELSE <<Head(s)>> \o InsertSorted(x, Tail(s))

\* sorted(list of int), ascending, duplicates kept
RECURSIVE sorted(_)
sorted(ids) ==
    IF ids = <<>> THEN <<>> ELSE InsertSorted(Head(ids), sorted(Tail(ids)))

RECURSIVE JoinInts(_)
JoinInts(ids) ==
    IF ids = <<>> THEN <<>>
    ELSE IF Len(ids) = 1 THEN IntToStr(ids[1])
    ELSE IntToStr(ids[1]) \o <<",", " ">> \o JoinInts(Tail(ids))

\* str([1, 2]) = "[1, 2]"; json.dumps([1, 2]) gives the same text
ListRepr(ids) == <<"[">> \o JoinInts(ids) \o <<"]">>

\* s[i..j], empty when j < i
Slice(s, i, j) == IF j < i THEN <<>> ELSE SubSeq(s, i, j)

\* s.find(sub) from position i on: the least index >= i where sub starts,
\* 0 when there is none
StartsAt(s, sub, i) ==
    /\ i + Len(sub) - 1 <= Len(s)
    /\ SubSeq(s, i, i + Len(sub) - 1) = sub

Find(s, sub, i) ==
    IF \E k \in i..Len(s) : StartsAt(s, sub, k)
    THEN CHOOSE k \in i..Len(s) :
            StartsAt(s, sub, k) /\ \A m \in i..(k - 1) : ~StartsAt(s, sub, m)
    ELSE 0

\* sub in s
Contains(s, sub) == Find(s, sub, 1) # 0

\* s.split(sep): the pieces between successive occurrences of sep, scanned
\* left to right without overlap
RECURSIVE Split(_, _)
Split(s, sep) ==
    LET k == Find(s, sep, 1) IN
    IF k = 0 THEN <<s>>
    ELSE <<Slice(s, 1, k - 1)>> \o Split(Slice(s, k + Len(sep), Len(s)), sep)

IsSpace(c) == c \in {" ", "\t", "\n"}

\* s.strip()
RECURSIVE LStrip(_)
LStrip(s) == IF s # <<>> /\ IsSpace(Head(s)) THEN LStrip(Tail(s)) ELSE s

RECURSIVE RStrip(_)
RStrip(s) ==
    IF s # <<>> /\ IsSpace(s[Len(s)]) THEN RStrip(Slice(s, 1, Len(s) - 1)) ELSE s

Strip(s) == RStrip(LStrip(s))

UpperChars == <<"A", "B", "C", "D", "E", "F", "G", "H", "I", "J", "K", "L", "M", "N", "O", "P", "Q", "R", "S", "T", "U", "V", "W", "X", "Y", "Z">>
LowerChars == <<"a", "b", "c", "d", "e", "f", "g", "h", "i", "j", "k", "l", "m", "n", "o", "p", "q", "r", "s", "t", "u", "v", "w", "x", "y", "z">>

\* s.lower()
LowerChar(c) ==
    IF \E k \in 1..26 : UpperChars[k] = c
    THEN LowerChars[CHOOSE k \in 1..26 : UpperChars[k] = c]
    ELSE c

Lower(s) == [i \in 1..Len(s) |-> LowerChar(s[i])]

\* int(s) of a decimal literal; IsIntLiteral is false where int() raises
\* ValueError
IsDigit(c) == \E k \in 1..10 : DigitChars[k] = c

IsIntLiteral(s) == s # <<>> /\ \A i \in 1..Len(s) : IsDigit(s[i])

DigitValue(c) == (CHOOSE k \in 1..10 : DigitChars[k] = c) - 1

RECURSIVE StrToInt(_)
StrToInt(s) ==
    IF Len(s) = 1 THEN DigitValue(s[1])
    ELSE 10 * StrToInt(Slice(s, 1, Len(s) - 1)) + DigitValue(s[Len(s)])

\* the sequences that list each element of the set S once
Orders(S) ==
    {o \in [1..Cardinality(S) -> S] : \A i, j \in 1..Cardinality(S) : o[i] = o[j] => i = j}

\* the characters of dates in their byte order, for comparisons of TEXT
TextChars == <<"-", "0", "1", "2", "3", "4", "5", "6", "7", "8", "9">>

Ord(c) == CHOOSE k \in 1..Len(TextChars) : TextChars[k] = c

\* a <= b for two TEXT values in SQLite (BINARY collation: bytewise, a
\* proper prefix first)
RECURSIVE TextLe(_, _)
TextLe(a, b) ==
    IF a = <<>> THEN TRUE
    ELSE IF b = <<>> THEN FALSE
    ELSE IF Head(a) = Head(b) THEN TextLe(Tail(a), Tail(b))
    ELSE Ord(Head(a)) < Ord(Head(b))

(***************************************************************************)
(* SyncTracker: fingerprint and record store.                              *)
(***************************************************************************)
\* hashlib.sha256(...).hexdigest(), taken as injective on the hashed string
sha256(s) == [digest_of |-> s]

\* the f-string of _generate_entry_hash before hashing
key_data_mut_no_duration(toggl_ids, issue_key, description, duration, start_date) ==
    ListRepr(sorted(toggl_ids)) \o <<"|">> \o issue_key \o <<"|">> \o description
        \o <<"|">> \o start_date

key_data_mut_unsorted(toggl_ids, issue_key, description, duration, start_date) ==
    ListRepr(toggl_ids) \o <<"|">> \o issue_key \o <<"|">> \o description
        \o <<"|">> \o IntToStr(duration) \o <<"|">> \o start_date

key_data(toggl_ids, issue_key, description, duration, start_date) ==
    ListRepr(sorted(toggl_ids)) \o <<"|">> \o issue_key \o <<"|">> \o description
        \o <<"|">> \o IntToStr(duration) \o <<"|">> \o start_date

generate_entry_hash(toggl_ids, issue_key, description, duration, start_date) ==
    sha256(key_data(toggl_ids, issue_key, description, duration, start_date))

\* _init_database on a database file: CREATE TABLE IF NOT EXISTS.  file is
\* None when the file holds no table sync_records yet, else the table
init_database_mut_recreate(file) == <<>>

init_database(file) == IF file = None THEN <<>> ELSE CHOOSE table \in file : TRUE

\* SELECT COUNT(*) FROM sync_records WHERE entry_hash = ?
CountRows(st, h) == Cardinality({i \in 1..Len(st) : st[i].entry_hash = h})

is_entry_synced_mut_always_false(st, toggl_ids, issue_key, description, duration, start_date) ==
    FALSE

is_entry_synced(st, toggl_ids, issue_key, description, duration, start_date) ==
    CountRows(st, generate_entry_hash(toggl_ids, issue_key, description,
                                      duration, start_date)) > 0

\* the row record_sync binds to its INSERT
NewRow(toggl_ids, issue_key, description, duration, start_date, tempo_worklog_id, additional_data, sync_timestamp) ==
    [entry_hash       |-> generate_entry_hash(toggl_ids, issue_key, description,
                                              duration, start_date),
     toggl_ids        |-> ListRepr(sorted(toggl_ids)),
     issue_key        |-> issue_key,
     description      |-> description,
     duration         |-> duration,
     start_date       |-> start_date,
     tempo_worklog_id |-> tempo_worklog_id,
     sync_timestamp   |-> sync_timestamp,
     additional_data  |-> additional_data]

\* INSERT INTO sync_records under entry_hash TEXT UNIQUE: a second row of the
\* same hash raises sqlite3.IntegrityError, which record_sync swallows
Insert_mut_no_unique(st, row) == Append(st, row)

Insert_mut_replace(st, row) ==
    IF CountRows(st, row.entry_hash) > 0
    THEN [i \in 1..Len(st) |->
            IF st[i].entry_hash = row.entry_hash THEN row ELSE st[i]]
    ELSE Append(st, row)

Insert(st, row) ==
    IF CountRows(st, row.entry_hash) > 0 THEN st ELSE Append(st, row)

record_sync_mut_upsert(st, toggl_ids, issue_key, description, duration, start_date, tempo_worklog_id, additional_data, sync_timestamp) ==
    Insert_mut_replace(st, NewRow(toggl_ids, issue_key, description, duration, start_date, tempo_worklog_id, additional_data, sync_timestamp))

\* the store after record_sync; its return value is the entry hash either way
record_sync(st, toggl_ids, issue_key, description, duration, start_date, tempo_worklog_id, additional_data, sync_timestamp) ==
    Insert(st, NewRow(toggl_ids, issue_key, description, duration, start_date,
                      tempo_worklog_id, additional_data, sync_timestamp))

\* DELETE FROM sync_records WHERE entry_hash = ?
delete_sync_record_mut_keeps(st, h) == st

delete_sync_record_mut_from_there(st, h) ==
    IF \E i \in 1..Len(st) : st[i].entry_hash = h
    THEN SubSeq(st, 1, (CHOOSE i \in 1..Len(st) : st[i].entry_hash = h) - 1)
    ELSE st

delete_sync_record(st, h) ==
    SelectSeq(st, LAMBDA row : row.entry_hash # h)

\* DELETE FROM sync_records
clear_all_records_mut_keeps_first(st) == IF st = <<>> THEN st ELSE <<Head(st)>>

clear_all_records(st) == <<>>

\* `if start_date:` -- a bound counts when it is neither None nor ""
Given(bound) == bound # None /\ bound # Some(<<>>)

\* the WHERE clause of list_synced_entries: start_date >= ? AND start_date <= ?
InBounds_mut_exclusive_end(row, start_date, end_date) ==
    /\ Given(start_date) => \A b \in start_date : TextLe(b, row.start_date)
    /\ Given(end_date) => \A b \in end_date : TextLe(row.start_date, b) /\ row.start_date # b

InBounds(row, start_date, end_date) ==
    /\ Given(start_date) => \A b \in start_date : TextLe(b, row.start_date)
    /\ Given(end_date) => \A b \in end_date : TextLe(row.start_date, b)

\* ORDER BY start_date, sync_timestamp: r1 may come before r2
OrderByLe_mut_rowid(r1, r2) == TRUE

OrderByLe(r1, r2) ==
    \/ r1.start_date # r2.start_date /\ TextLe(r1.start_date, r2.start_date)
    \/ r1.start_date = r2.start_date /\ r1.sync_timestamp <= r2.sync_timestamp

\* what list_synced_entries may return: the selected rows in an order that
\* ORDER BY allows (rows equal in both sort columns may come in any order)
list_synced_entries(st, start_date, end_date) ==
    LET sel == {i \in 1..Len(st) : InBounds(st[i], start_date, end_date)}
    IN  {[k \in 1..Cardinality(sel) |-> st[o[k]]] :
            o \in {p \in Orders(sel) :
                      \A a, b \in 1..Cardinality(sel) :
                          a < b => OrderByLe(st[p[a]], st[p[b]])}}

(***************************************************************************)
(* Inputs: strings of the pools, written out character by character.       *)
(***************************************************************************)
D15 == <<"2", "0", "2", "5", "-", "0", "1", "-", "1", "5">>
D16 == <<"2", "0", "2", "5", "-", "0", "1", "-", "1", "6">>

\* an argument tuple of _generate_entry_hash / is_entry_synced / record_sync
Args(ids, k, d, n, sd) ==
    [toggl_ids |-> ids, issue_key |-> k, description |-> d, duration |-> n, start_date |-> sd]

HashOf(a) ==
    generate_entry_hash(a.toggl_ids, a.issue_key, a.description, a.duration, a.start_date)

\* the identity tuple of the data model: (sorted source ids, issue key,
\* description, duration, date).  Ids are compared as a bag, without sorted().
CountIn(s, x) == Cardinality({i \in 1..Len(s) : s[i] = x})

SameIds(s, t) ==
    /\ Len(s) = Len(t)
    /\ \A i \in 1..Len(s) : CountIn(s, s[i]) = CountIn(t, s[i])

SameTuple(a, b) ==
    /\ SameIds(a.toggl_ids, b.toggl_ids)
    /\ a.issue_key = b.issue_key
    /\ a.description = b.description
    /\ a.duration = b.duration
    /\ a.start_date = b.start_date

\* inputs of the fingerprint function
HashIds == {<<1>>, <<1, 2>>, <<2, 1>>}
HashKeys == {<<"A">>, <<"A", "|", "B">>, <<"B">>}
HashDescs == {<<>>, <<"C">>, <<"B", "|", "C">>}
HashDurations == {60, 120}
HashDates == {D15, D16}

HashArgs ==
    {Args(ids, k, d, n, sd) : ids \in HashIds, k \in HashKeys, d \in HashDescs,
                               n \in HashDurations, sd \in HashDates}

VARIABLES
    h_in,     \* fingerprint function: the two argument tuples under comparison
    h_out     \* fingerprint function: their digests, None until computed

hashVars == <<h_in, h_out>>

\* one call of _generate_entry_hash
GenerateEntryHash(i) ==
    /\ h_out[i] = None
    /\ h_out' = [h_out EXCEPT ![i] = Some(HashOf(h_in[i]))]
    /\ UNCHANGED h_in

(***************************************************************************)
(* The record store driven through the SyncTracker methods.                *)
(***************************************************************************)
\* arguments of the store calls: a pair that differs only in the order of
\* the ids, a pair whose fields differ but whose hashed strings coincide
\* ("A" + "B|C" and "A|B" + "C"), and entries of other ids, durations, dates
StoreArgs ==
    {Args(<<1, 2>>, <<"A">>, <<"B", "|", "C">>, 60, D15),
     Args(<<2, 1>>, <<"A">>, <<"B", "|", "C">>, 60, D15),
     Args(<<1, 2>>, <<"A", "|", "B">>, <<"C">>, 60, D15),
     Args(<<1, 2>>, <<"A">>, <<"B", "|", "C">>, 120, D15),
     Args(<<3>>, <<"B">>, <<>>, 60, D16)}

\* (tempo_worklog_id, additional_data) given to record_sync; an empty dict
\* is stored as NULL like None (json.dumps(x) if x else None)
NoExtras == [tempo_worklog_id |-> None, additional_data |-> None]

StoreExtras ==
    {NoExtras,
     [tempo_worklog_id |-> Some(<<"t", "1">>), additional_data |-> Some([test |-> TRUE])]}

NoArgs == Args(<<>>, <<>>, <<>>, 0, <<>>)

\* date bounds given to list_synced_entries
ListBounds == {None, Some(D15), Some(D16)}

VARIABLES
    store,    \* table sync_records of the database file, in rowid order
    lastOp,   \* the last SyncTracker call: [op, args, h, dup]
    ret,      \* its return value
    live      \* history: for each hash record_sync was called with and no
              \* delete_sync_record or clear_all_records removed since, what
              \* the first such call passed: [h, tempo_worklog_id,
              \* sync_timestamp, additional_data]

storeVars == <<store, lastOp, ret, live>>

Op(name, a, h, dup) == [op |-> name, args |-> a, h |-> h, dup |-> dup]

LiveHashes == {l.h : l \in live}

\* SyncTracker(db_path) on the database file of the store
OpenTracker ==
    /\ store' = init_database(Some(store))
    /\ ret' = None
    /\ lastOp' = Op("SyncTracker", NoArgs, HashOf(NoArgs), FALSE)
    /\ UNCHANGED live

\* tracker.record_sync(...)
RecordSync(a, x, t) ==
    LET h == HashOf(a) IN
    /\ store' = record_sync(store, a.toggl_ids, a.issue_key, a.description, a.duration, a.start_date, x.tempo_worklog_id, x.additional_data, t)
    /\ ret' = Some(h)
    /\ lastOp' = Op("record_sync", a, h, h \in LiveHashes)
    /\ live' = IF h \in LiveHashes THEN live
               ELSE live \cup {[h |-> h, tempo_worklog_id |-> x.tempo_worklog_id,
                                 sync_timestamp |-> t,
                                 additional_data |-> x.additional_data]}

\* tracker.is_entry_synced(...)
IsEntrySynced(a) ==
    /\ ret' = Some(is_entry_synced(store, a.toggl_ids, a.issue_key, a.description, a.duration, a.start_date))
    /\ lastOp' = Op("is_entry_synced", a, HashOf(a), FALSE)
    /\ UNCHANGED <<store, live>>

\* tracker.delete_sync_record(entry_hash)
DeleteSyncRecord(h) ==
    /\ store' = delete_sync_record(store, h)
    /\ ret' = Some(Len(store') < Len(store))
    /\ lastOp' = Op("delete_sync_record", NoArgs, h, FALSE)
    /\ live' = {l \in live : l.h # h}

\* tracker.clear_all_records()
ClearAllRecords ==
    /\ store' = clear_all_records(store)
    /\ ret' = Some(Len(store) - Len(store'))
    /\ lastOp' = Op("clear_all_records", NoArgs, HashOf(NoArgs), FALSE)
    /\ live' = {}

ClearAll_mut_ignores_flag(confirm) ==
    /\ store' = clear_all_records(init_database(Some(store)))
    /\ ret' = Some(Len(store))
    /\ lastOp' = Op("clear_all", [confirm |-> confirm], HashOf(NoArgs), FALSE)
    /\ live' = {}

\* sync-records clear [--confirm]: clear_all(args) of sync_records_cli.py
ClearAll(confirm) ==
    LET opened == init_database(Some(store)) IN
    /\ lastOp' = Op("clear_all", [confirm |-> confirm], HashOf(NoArgs), FALSE)
    /\ IF ~confirm
       THEN /\ store' = opened
            /\ ret' = None
            /\ UNCHANGED live
       ELSE /\ store' = clear_all_records(opened)
            /\ ret' = Some(Len(opened) - Len(store'))
            /\ live' = {}

\* tracker.list_synced_entries(start_date, end_date)
ListSyncedEntries(start_date, end_date) ==
    /\ \E rows \in list_synced_entries(store, start_date, end_date) : ret' = Some(rows)
    /\ lastOp' = Op("list_synced_entries", [start_date |-> start_date, end_date |-> end_date], HashOf(NoArgs), FALSE)
    /\ UNCHANGED <<store, live>>

(***************************************************************************)
(* TogglTrackAPI.get_time_entries: filtering, grouping, rounding.          *)
(***************************************************************************)
\* time-of-day part of a Toggl "start" timestamp
TSuffix == <<"T", "0", "9", ":", "0", "0", ":", "0", "0", "+", "0", "0", ":", "0", "0">>

\* raw description "A: --d": issue key A, description d
DescA == <<"A", ":", " ", "-", "-", "d">>
\* raw description "B:x": issue key B, no description
DescB == <<"B", ":", "x">>

\* a time entry as /me/time_entries returns it.  members is history: the ids
\* of the raw entries merged into the entry (the code keeps no such field)
Raw(id, description, duration, date, tags, project_id) ==
    [id |-> id, description |-> description, duration |-> duration, start |-> date \o TSuffix, tags |-> tags, project_id |-> project_id, members |-> {id}]

\* the time entries the user may have tracked: 1 and 2 share description and
\* day, 3 is on its own
RawPool ==
    {Raw(1, DescA, 70, D15, {}, 0),
     Raw(2, DescA, 20, D15, {"billable"}, 0),
     Raw(3, DescB, 90, D16, {}, 0)}

\* /me/projects of the user
Projects == {[id |-> 7, name |-> "Hours Bank"], [id |-> 0, name |-> "Work"]}

get_projects_mut_all(filter_names) == Projects

\* get_projects(filter_names)
get_projects(filter_names) ==
    IF filter_names # {} THEN {pr \in Projects : pr.name \in filter_names} ELSE Projects

\* entry["start"].split("T")[0]
StartDay(start) == Split(start, <<"T">>)[1]

\* round(n / g) * g for n >= 0: Python rounds an exact half to the even integer
PyRound_mut_half_up(n, g) == (2 * n + g) \div (2 * g)

PyRound(n, g) ==
    LET q == n \div g
        r == n % g
    IN  IF 2 * r < g THEN q
        ELSE IF 2 * r > g THEN q + 1
        ELSE IF q % 2 = 0 THEN q ELSE q + 1

\* the dict grouped_entries as the sequence of its (key, value) items in
\* insertion order, after one more entry of the loop
GroupStep(acc, e) ==
    LET key == e.description \o <<"-", "-">> \o StartDay(e.start) IN
    IF \E j \in 1..Len(acc) : acc[j].key = key
    THEN [j \in 1..Len(acc) |->
            IF acc[j].key = key
            THEN [key |-> key,
                  entry |-> [acc[j].entry EXCEPT
                                !.duration = @ + e.duration,
                                !.members = @ \cup e.members]]
            ELSE acc[j]]
    ELSE Append(acc, [key |-> key, entry |-> e])

RECURSIVE GroupLoop(_, _)
GroupLoop(acc, es) ==
    IF es = <<>> THEN acc ELSE GroupLoop(GroupStep(acc, Head(es)), Tail(es))

\* list(grouped_entries.values())
GroupEntries(es) ==
    LET acc == GroupLoop(<<>>, es) IN [j \in 1..Len(acc) |-> acc[j].entry]

RECURSIVE InsertById(_, _)
InsertById(e, s) ==
    IF s = <<>> THEN <<e>>
    ELSE IF e.id < Head(s).id THEN <<e>> \o s
    ELSE <<Head(s)>> \o InsertById(e, Tail(s))

\* sorted(entries, key=lambda entry: entry["id"]), stable
RECURSIVE SortById(_)
SortById(es) ==
    IF es = <<>> THEN <<>>
    ELSE InsertById(es[Len(es)], SortById(Slice(es, 1, Len(es) - 1)))

\* get_time_entries on the response es of the Toggl API, with an end date
\* given (sync.main always passes one)
get_time_entries_mut_round_first(es, group, round_seconds_to, skip_entry_substr, exclude_projects, exclude_tags, include_tags) ==
    LET r == IF round_seconds_to # 0
             THEN [j \in 1..Len(es) |->
                     [es[j] EXCEPT !.duration = PyRound(@, round_seconds_to) * round_seconds_to]]
             ELSE es
        g == IF group THEN GroupEntries(r) ELSE r
    IN  SortById(g)

get_time_entries(es, group, round_seconds_to, skip_entry_substr, exclude_projects, exclude_tags, include_tags) ==
    LET f1 == IF skip_entry_substr # <<>>
              THEN SelectSeq(es, LAMBDA e : ~Contains(e.description, skip_entry_substr))
              ELSE es
        f2 == IF exclude_tags # {}
              THEN SelectSeq(f1, LAMBDA e : e.tags \cap exclude_tags = {})
              ELSE f1
        f3 == IF exclude_projects # {}
              THEN SelectSeq(f2, LAMBDA e : e.project_id \notin {pr.id : pr \in get_projects(exclude_projects)})
              ELSE f2
        f4 == IF include_tags # {}
              THEN SelectSeq(f3, LAMBDA e : e.tags \cap include_tags # {})
              ELSE f3
        g  == IF group THEN GroupEntries(f4) ELSE f4
        r  == IF round_seconds_to # 0
              THEN [j \in 1..Len(g) |->
                      [g[j] EXCEPT !.duration = PyRound(@, round_seconds_to) * round_seconds_to]]
              ELSE g
    IN  SortById(r)

\* raw entries of a response under test: 1 and 2 share description and
\* day, 3 has the description of 1 on another day and an excluded tag, 4 and
\* 5 share description and day; 30, 90 and 150 are exact halves of 60
FetchPool ==
    {Raw(1, DescA, 1870, D15, {}, 0),
     Raw(2, DescA, 20, D15, {}, 0),
     Raw(3, DescA, 150, D16, {"unpaid"}, 0),
     Raw(4, DescB, 30, D15, {}, 0),
     Raw(5, DescB, 90, D15, {}, 0)}

\* entries in one response
MaxFetched == 3

FetchResponses ==
    UNION {Orders(S) : S \in {T \in SUBSET FetchPool : Cardinality(T) <= MaxFetched}}

FetchConfig(group, round_seconds_to, exclude_tags) ==
    [group |-> group, round_seconds_to |-> round_seconds_to, skip_entry_substr |-> <<>>, exclude_projects |-> {}, exclude_tags |-> exclude_tags, include_tags |-> {}]

FetchInputs ==
    {[resp |-> resp, cfg |-> FetchConfig(g, r, x)] :
        resp \in FetchResponses, g \in BOOLEAN, r \in {0, 40, 60}, x \in {{}, {"unpaid"}}}

\* calls that use the four filters of lines 79-99: entry 1 passes each of
\* them, 2 carries an excluded tag, 3 belongs to the excluded project, 4 has
\* the skipped substring in its description, 5 has none of the included tags
FilterInputs ==
    LET pool == {Raw(1, DescA, 60, D15, {"billable"}, 0),
                 Raw(2, DescA, 60, D15, {"billable", "unpaid"}, 0),
                 Raw(3, DescA, 60, D15, {"billable"}, 7),
                 Raw(4, DescB, 60, D16, {"billable"}, 0),
                 Raw(5, DescA, 60, D16, {}, 0)}
        resps == UNION {Orders(S) : S \in {T \in SUBSET pool : Cardinality(T) <= MaxFetched}}
    IN  {[resp |-> resp,
          cfg |-> [group |-> g, round_seconds_to |-> 0, skip_entry_substr |-> sk, exclude_projects |-> xp, exclude_tags |-> xt, include_tags |-> it]] :
            resp \in resps, g \in BOOLEAN, sk \in {<<>>, <<"x">>}, xp \in {{}, {"Hours Bank"}, {"Holiday"}}, xt \in {{}, {"unpaid", "skip_tempo"}}, it \in {{}, {"billable", "urgent"}}}

VARIABLES
    f_in,     \* get_time_entries: the API response and the keyword arguments
    f_out     \* get_time_entries: its result, None until computed

fetchVars == <<f_in, f_out>>

\* one call of get_time_entries
GetTimeEntries ==
    /\ f_out = None
    /\ f_out' = Some(get_time_entries(f_in.resp, f_in.cfg.group, f_in.cfg.round_seconds_to, f_in.cfg.skip_entry_substr, f_in.cfg.exclude_projects, f_in.cfg.exclude_tags, f_in.cfg.include_tags))
    /\ UNCHANGED f_in

(***************************************************************************)
(* sync.main and the start of sync.sync: the dates of a run.               *)
(***************************************************************************)
\* days of month m in year y
DaysIn(y, m) ==
    IF m = 2 THEN (IF (y % 4 = 0 /\ y % 100 # 0) \/ y % 400 = 0 THEN 29 ELSE 28)
    ELSE IF m \in {4, 6, 9, 11} THEN 30 ELSE 31

\* whether datetime.datetime.strptime(s, "%Y-%m-%d") returns; it raises
\* ValueError otherwise.  %Y is four digits, %m and %d one or two, %d also
\* a space and a digit
strptime_ok(s) ==
    LET parts == Split(s, <<"-">>) IN
    /\ Len(parts) = 3
    /\ Len(parts[1]) = 4 /\ IsIntLiteral(parts[1])
    /\ Len(parts[2]) \in 1..2 /\ IsIntLiteral(parts[2])
    /\ \/ Len(parts[3]) \in 1..2 /\ IsIntLiteral(parts[3])
       \/ Len(parts[3]) = 2 /\ parts[3][1] = " " /\ IsDigit(parts[3][2])
    /\ StrToInt(parts[1]) >= 1
    /\ StrToInt(parts[2]) \in 1..12
    /\ StrToInt(LStrip(parts[3])) \in 1..DaysIn(StrToInt(parts[1]), StrToInt(parts[2]))

\* n as decimal text of at least w digits
RECURSIVE Pad(_, _)
Pad(n, w) == IF Len(NatToStr(n)) >= w THEN NatToStr(n) ELSE <<"0">> \o Pad(n, w - 1) 

\* (strptime(s, "%Y-%m-%d") + timedelta(days=1)).strftime("%Y-%m-%dT%H:%M:%S+00:00")
NextDayStamp(s) ==
    LET parts == Split(s, <<"-">>)
        y == StrToInt(parts[1])
        m == StrToInt(parts[2])
        d == StrToInt(LStrip(parts[3]))
        ny == IF d = DaysIn(y, m) /\ m = 12 THEN y + 1 ELSE y
        nm == IF d = DaysIn(y, m) THEN (IF m = 12 THEN 1 ELSE m + 1) ELSE m
        nd == IF d = DaysIn(y, m) THEN 1 ELSE d + 1
    IN  NatToStr(ny) \o <<"-">> \o Pad(nm, 2) \o <<"-">> \o Pad(nd, 2) \o <<"T", "0", "0", ":", "0", "0", ":", "0", "0", "+", "0", "0", ":", "0", "0">>

\* get_past_working_day() on the day of the run
LastWorkingDay == D15

\* texts given as a date: two dates, a date without padding, a date in
\* another order, a day the month does not have, a timestamp
DateTexts ==
    {D15, D16,
     <<"2", "0", "2", "5", "-", "1", "-", "5">>,
     <<"1", "5", "/", "0", "1", "/", "2", "0", "2", "5">>,
     <<"2", "0", "2", "5", "-", "0", "2", "-", "3", "0">>,
     D15 \o <<"T", "0", "0", ":", "0", "0", ":", "0", "0", "Z">>}

\* python cli.py sync [start_date] [end_date], and what the operator types
\* at the two date prompts (the empty text is a bare Enter)
DateInputs ==
    {[args |-> a, typed |-> t] :
        a \in {<<>>} \cup {<<x>> : x \in DateTexts} \cup {<<x, y>> : x, y \in DateTexts},
        t \in {<<x, y>> : x, y \in DateTexts \cup {<<>>}}}

DateIdle == [args |-> <<D15, D15>>, typed |-> <<<<>>, <<>>>>]

DateStart == [stage |-> "main", start_date |-> <<>>, end_date |-> <<>>, requests |-> <<>>]

VARIABLES
    d_in,     \* the command line of a sync command and the prompt answers
    d_out     \* main and the start of sync: [stage, start_date, end_date,
              \* requests], requests being the API requests sent so far

dateVars == <<d_in, d_out>>

\* sync.main: the dates from the arguments, else from the prompts, else the
\* last working day; then sync(start_date, end_date)
Main ==
    /\ d_out.stage = "main"
    /\ LET arg_start == IF Len(d_in.args) > 0 THEN d_in.args[1] ELSE <<>>
           arg_end == IF Len(d_in.args) = 2 THEN d_in.args[2] ELSE <<>>
           start_date == IF arg_start # <<>> THEN arg_start
                         ELSE IF d_in.typed[1] # <<>> THEN d_in.typed[1] ELSE LastWorkingDay
           end_date == IF arg_end # <<>> THEN arg_end
                       ELSE IF d_in.typed[2] # <<>> THEN d_in.typed[2] ELSE LastWorkingDay
       IN  d_out' = [d_out EXCEPT !.stage = "sync", !.start_date = start_date, !.end_date = end_date]
    /\ UNCHANGED d_in

\* sync up to the fetch: the API objects and the tracker are constructed
\* without a request, then get_time_entries parses end_date, sends
\* start_date as given and end_date plus one day to /me/time_entries, and
\* returns the entries or raises what raise_for_status raises
SyncFetch(status_ok) ==
    /\ d_out.stage = "sync"
    /\ IF ~strptime_ok(d_out.end_date)
       THEN d_out' = [d_out EXCEPT !.stage = "error"]
       ELSE d_out' = [d_out EXCEPT
                        !.stage = IF status_ok THEN "fetched" ELSE "error",
                        !.requests = Append(@, [api |-> "toggl", start_date |-> d_out.start_date, end_date |-> NextDayStamp(d_out.end_date)])]
    /\ UNCHANGED d_in

(***************************************************************************)
(* Two sync processes on one database file.                                *)
(***************************************************************************)
\* the logical entries both processes fetched from the same raw entries
RunEntries ==
    <<Args(<<1, 2>>, <<"A">>, <<"B", "|", "C">>, 60, D15), Args(<<3>>, <<"B">>, <<>>, 60, D16)>>

\* what process r passes to record_sync besides the entry: the worklog id
\* Tempo gave to its own add_worklog call
RunExtras(r) ==
    [tempo_worklog_id |-> Some(<<"t", DigitChars[r + 1]>>), additional_data |-> Some([test |-> TRUE])]

VARIABLES
    procs     \* for each of the two processes, where its sync is: [pc, idx]

\* SyncTracker() of line 71
RunStart(r) ==
    /\ procs[r].pc = "idle"
    /\ OpenTracker
    /\ procs' = [procs EXCEPT ![r].pc = "loop"]

\* the next entry and its is_entry_synced (line 117); a hit is skipped
RunCheck(r) ==
    /\ procs[r].pc = "loop"
    /\ procs[r].idx < Len(RunEntries)
    /\ LET a == RunEntries[procs[r].idx + 1] IN
       /\ IsEntrySynced(a)
       /\ procs' = [procs EXCEPT ![r] = [pc |-> IF ret' = Some(TRUE) THEN "loop" ELSE "submit", idx |-> @.idx + 1]]

\* get_issue_details and add_worklog of lines 130-159 succeed
RunSubmit(r) ==
    /\ procs[r].pc = "submit"
    /\ procs' = [procs EXCEPT ![r].pc = "record"]
    /\ UNCHANGED storeVars

\* record_sync of line 167, one INSERT in its own connection
RunRecord(r, t) ==
    /\ procs[r].pc = "record"
    /\ RecordSync(RunEntries[procs[r].idx], RunExtras(r), t)
    /\ procs' = [procs EXCEPT ![r].pc = "loop"]

\* the for loop is through
RunFinish(r) ==
    /\ procs[r].pc = "loop"
    /\ procs[r].idx = Len(RunEntries)
    /\ procs' = [procs EXCEPT ![r].pc = "done"]
    /\ UNCHANGED storeVars

(***************************************************************************)
(* AnimatedLoader and the prompts of sync: the main thread and the spinner *)
(* thread around the API calls of one entry.                               *)
(***************************************************************************)
\* iterations of _spin counted in one loader
MaxSpins == 2

VARIABLES
    at,       \* where the main thread is in the while True of sync: [pos,
              \* op, raised], op the loader entered last and raised whether
              \* its body raised
    loader    \* the AnimatedLoader made last: [message, running, thread,
              \* spinner_index], thread the position of its _spin thread

loaderVars == <<at, loader>>

\* input() is waiting for the operator
Prompts == {"failure_menu", "deprecated_menu", "manual_input", "modify_input", "wait_for_enter"}

Spinning(l) == l.thread \in {"check", "write"}

\* with create_api_loader(message) as loader: a new AnimatedLoader, then
\* __enter__, which calls start(): running is false, so it is set and the
\* thread is started
LoaderEnter(message) ==
    /\ \/ at.pos = "try" /\ message = "Validating JIRA issue"
       \/ at.pos = "submit" /\ message = "Syncing to Tempo"
    /\ loader' = [message |-> message, running |-> TRUE, thread |-> "check", spinner_index |-> 0]
    /\ at' = [pos |-> "body", op |-> message, raised |-> FALSE]

\* the body of the with statement: the API call returns or raises, and
\* __exit__ is called in both cases
LoaderBody(raised) ==
    /\ at.pos = "body"
    /\ at' = [at EXCEPT !.pos = "exit", !.raised = raised]
    /\ UNCHANGED loader

\* __exit__ calls stop(): if self.running: self.running = False
LoaderStop ==
    /\ at.pos = "exit"
    /\ loader' = [loader EXCEPT !.running = FALSE]
    /\ at' = [at EXCEPT !.pos = IF loader.running /\ loader.thread # "none" THEN "join" ELSE "after"]

LoaderJoin_mut_no_wait ==
    /\ at.pos = "join"
    /\ at' = [at EXCEPT !.pos = "after"]
    /\ UNCHANGED loader

\* self.thread.join(): returns when _spin has returned
LoaderJoin ==
    /\ at.pos = "join"
    /\ loader.thread = "dead"
    /\ at' = [at EXCEPT !.pos = "after"]
    /\ UNCHANGED loader

\* after the with statement: an exception of the body goes on to the except
\* clause of line 191 and its menu; after get_issue_details the summary
\* decides between the deprecated-issue menu and the submission; after
\* add_worklog comes record_sync
AfterLoader(deprecated) ==
    /\ at.pos = "after"
    /\ at' = [at EXCEPT !.pos =
                IF at.raised THEN "failure_menu"
                ELSE IF at.op = "Validating JIRA issue"
                     THEN (IF deprecated THEN "deprecated_menu" ELSE "submit")
                     ELSE "record"]
    /\ UNCHANGED loader

\* record_sync returns, then break; or it raises into the except clause
RecordStep(raised) ==
    /\ at.pos = "record"
    /\ at' = [at EXCEPT !.pos = IF raised THEN "failure_menu" ELSE "next_entry", !.raised = raised]
    /\ UNCHANGED loader

\* the answer to input_choice of line 205
FailureMenu(choice) ==
    /\ at.pos = "failure_menu"
    /\ at' = [at EXCEPT !.pos =
                CASE choice = "Retry" -> "try"
                  [] choice = "Skip" -> "next_entry"
                  [] choice = "Exit" -> "exited"
                  [] choice = "Manual Entry" -> "manual_input"
                  [] choice = "Open JIRA Issue" -> "wait_for_enter"]
    /\ UNCHANGED loader

\* the answer to input_choice of line 143
DeprecatedMenu(choice) ==
    /\ at.pos = "deprecated_menu"
    /\ at' = [at EXCEPT !.pos =
                CASE choice = "Continue Anyway" -> "submit"
                  [] choice = "Modify Details" -> "modify_input"
                  [] choice = "Skip" -> "next_entry"]
    /\ UNCHANGED loader

\* the four input_or_default prompts, or wait_for_enter, answered: int()
\* raises ValueError on a text that is no number, which inside the try goes
\* to the menu and inside the except clause ends the run
PromptAnswered(valid) ==
    /\ at.pos \in {"manual_input", "modify_input", "wait_for_enter"}
    /\ at' = [at EXCEPT !.pos =
                IF valid \/ at.pos = "wait_for_enter" THEN "try"
                ELSE IF at.pos = "modify_input" THEN "failure_menu" ELSE "crashed"]
    /\ UNCHANGED loader

\* the next entry of the for loop reaches its own while True
NextEntry ==
    /\ at.pos = "next_entry"
    /\ at' = [at EXCEPT !.pos = "try"]
    /\ UNCHANGED loader

\* _spin: while self.running
SpinCheck ==
    /\ loader.thread = "check"
    /\ loader.running => loader.spinner_index < MaxSpins
    /\ loader' = [loader EXCEPT !.thread = IF loader.running THEN "write" ELSE "dead"]
    /\ UNCHANGED at

\* _spin: the body of the loop writes the spinner, counts and sleeps
SpinWrite ==
    /\ loader.thread = "write"
    /\ loader' = [loader EXCEPT !.thread = "check", !.spinner_index = @ + 1]
    /\ UNCHANGED at

(***************************************************************************)
(* sync.sync: the per-entry loop.                                          *)
(***************************************************************************)
\* runs of sync in one behaviour
MaxRuns == 2
\* answers to the Manual Entry / Modify Details prompts in one behaviour
MaxEdits == 1

\* round_seconds_to of the call in sync
RoundSecondsTo == 60
ExcludeTags == {"banked_hours", "unpaid", "skip_tempo"}
ExcludeProjects == {"Hours Bank"}

\* values datetime.now() may give to two record_sync calls
Clock == {0, 1}

\* issues of the Jira site: key -> id and summary
SummaryOk == <<"F", "i", "x">>
SummaryMoved == <<"M", "o", "v", "e", "d", " ", "T", "O", " ", "C">>

JiraKeys == {<<"A">>, <<"B">>, <<"C">>}

JiraIssue(key) ==
    IF key = <<"A">> THEN [id |-> "10", summary |-> SummaryOk]
    ELSE IF key = <<"B">> THEN [id |-> "20", summary |-> SummaryMoved]
    ELSE [id |-> "30", summary |-> SummaryOk]

\* responses of POST /worklogs
TempoResults == {[tempoWorklogId |-> Some("w1")]}

\* what the operator types at the four prompts of Manual Entry / Modify
\* Details; an empty answer keeps the current value
Typed(k, n, sd, d) == [issue_key |-> k, duration |-> n, start_date |-> sd, description |-> d]

ManualInputs ==
    {Typed(<<"C">>, <<>>, <<>>, <<>>),
     Typed(<<>>, <<"1", "8", "0">>, D16, <<>>),
     Typed(<<>>, <<>>, <<>>, <<"e">>),
     Typed(<<"C">>, <<"x">>, <<>>, <<>>)}

\* value or default
input_or_default(value, default) == IF value # <<>> THEN value ELSE default

VARIABLES
    toggl,              \* time entries on the Toggl server
    pc,                 \* where the sync process is
    entries,            \* result of get_time_entries
    idx,                \* position of the for loop in entries, 0 before it
    issue_key,          \* working copy, as the three below
    issue_description,
    duration,
    entry_date_str,
    issue_id,           \* of the last get_issue_details
    issue_summary,
    worklog_result,     \* of the last add_worklog
    runs,               \* sync runs started
    edits,              \* prompts of Manual Entry / Modify Details answered
    trace,              \* history, per entry of this run: what happened to it
    logged,             \* history: per raw id, the worklogs Tempo accepted
                        \* for a logical entry the raw entry is part of
    synced,             \* history: logical entries synced, with their run
    prev                \* history: entries, final table and outcome of the
                        \* run before this one

workVars == <<issue_key, issue_description, duration, entry_date_str>>
apiVars == <<issue_id, issue_summary, worklog_result>>
histVars == <<trace, logged, synced, prev>>
syncVars == <<toggl, pc, entries, idx, workVars, apiVars, runs, edits, histVars>>

RawIds == {e.id : e \in RawPool}

NoTrace ==
    [dedup_checks |-> 0, had_record |-> FALSE, jira_called |-> FALSE, continued |-> FALSE, tempo_called |-> FALSE, tempo_ok |-> 0, records |-> 0, record_calls |-> 0, manual |-> FALSE, sent |-> NoArgs, sent_id |-> "", result |-> "pending"]

NoPrev == [valid |-> FALSE, entries |-> <<>>, store |-> <<>>, clean |-> FALSE]

\* sync.py lines 93-99 and 114: the original details of an entry
original_issue_key(e) == Strip(Split(e.description, <<":">>)[1])

original_issue_description_mut_always_empty(e) == <<>>

original_issue_description(e) ==
    Strip(IF Contains(e.description, <<"-", "-">>) /\ Split(e.description, <<"-", "-">>)[2] # <<>>
          THEN Split(e.description, <<"-", "-">>)[2]
          ELSE <<>>)

original_duration(e) == e.duration

\* str(strptime(entry["start"], "%Y-%m-%dT%H:%M:%S+00:00").date()) of a
\* well-formed timestamp
original_entry_date_str(e) == Slice(e.start, 1, 10)

\* entry.get("original_toggl_ids", [entry["id"]]): get_time_entries sets no
\* such key
original_toggl_ids(e) ==
    IF "original_toggl_ids" \in DOMAIN e THEN e.original_toggl_ids ELSE <<e.id>>

\* raw descriptions under test: every string of these characters up to
\* the length MaxDescLen
ParseChars == {"A", ":", "-", " "}

MaxDescLen == 5

ParseDescs == UNION {[1..n -> ParseChars] : n \in 0..MaxDescLen}

VARIABLES
    p_in,     \* identity parse: the raw description
    p_out     \* identity parse: issue key and description, None until parsed

parseVars == <<p_in, p_out>>

\* lines 93-95 of sync on an entry of the description p_in
ParseIdentity ==
    /\ p_out = None
    /\ p_out' = Some([issue_key |-> original_issue_key([description |-> p_in]),
                      description |-> original_issue_description([description |-> p_in])])
    /\ UNCHANGED p_in

\* sync() returns or the process ends: its locals are gone
NoLocals ==
    /\ issue_key' = <<>>
    /\ issue_description' = <<>>
    /\ duration' = 0
    /\ entry_date_str' = <<>>
    /\ issue_id' = ""
    /\ issue_summary' = <<>>
    /\ worklog_result' = None

OriginalArgs(e) ==
    Args(original_toggl_ids(e), original_issue_key(e), original_issue_description(e), original_duration(e), original_entry_date_str(e))

Running == pc \in {"loop", "validate", "deprecated", "submit", "record", "failed"}

\* the user tracks one more time entry in Toggl, which numbers its entries
\* in the order of their creation.  A run reads Toggl only in its fetch, so
\* tracking during a run is tracking right after it.
TrackEntry(e) ==
    /\ ~Running
    /\ e \notin toggl
    /\ \A x \in RawPool : x.id < e.id => x \in toggl
    /\ toggl' = toggl \cup {e}
    /\ UNCHANGED <<pc, entries, idx, workVars, apiVars, runs, edits, histVars>>
    /\ UNCHANGED <<store, lastOp, ret, live>>

\* summary of the run that just ended, kept when the next one starts
RunSummary ==
    [valid |-> runs > 0,
     entries |-> entries,
     store |-> store,
     clean |-> pc = "done" /\ \A i \in 1..Len(trace) : trace[i].result \in {"synced", "skipped_dup"}]

\* sync() up to the for loop: SyncTracker() opens the database (CREATE TABLE
\* IF NOT EXISTS), get_time_entries fetches what the API returns, in the
\* order resp
StartSync(resp) ==
    /\ ~Running
    /\ runs < MaxRuns
    /\ runs' = runs + 1
    /\ entries' = get_time_entries(resp, TRUE, RoundSecondsTo, <<>>, ExcludeProjects, ExcludeTags, {})
    /\ idx' = 0
    /\ pc' = "loop"
    /\ trace' = [i \in 1..Len(entries') |-> NoTrace]
    /\ prev' = RunSummary
    /\ store' = init_database(Some(store))
    /\ UNCHANGED <<toggl, workVars, apiVars, edits, logged, synced>>
    /\ UNCHANGED <<lastOp, ret, live>>

\* the fetch raises (network, HTTP status): it is outside every try
StartSyncFails ==
    /\ ~Running
    /\ runs < MaxRuns
    /\ runs' = runs + 1
    /\ entries' = <<>>
    /\ idx' = 0
    /\ pc' = "crashed"
    /\ trace' = <<>>
    /\ prev' = RunSummary
    /\ store' = init_database(Some(store))
    /\ UNCHANGED <<toggl, workVars, apiVars, edits, logged, synced>>
    /\ UNCHANGED <<lastOp, ret, live>>

\* the branch of sync.py line 117 on the answer of is_entry_synced
DedupSkips_mut_never(synced_already) == FALSE

DedupSkips(synced_already) == synced_already

\* top of the for loop for the next entry: lines 92-125
ForEntry ==
    /\ pc = "loop"
    /\ idx < Len(entries)
    /\ LET e == entries[idx + 1]
           o == OriginalArgs(e)
           found == is_entry_synced(store, o.toggl_ids, o.issue_key, o.description, o.duration, o.start_date)
       IN  /\ idx' = idx + 1
           /\ issue_key' = o.issue_key
           /\ issue_description' = o.description
           /\ duration' = o.duration
           /\ entry_date_str' = o.start_date
           /\ pc' = IF DedupSkips(found) THEN "loop" ELSE "validate"
           /\ trace' = [trace EXCEPT ![idx + 1] =
                            [@ EXCEPT !.dedup_checks = @ + 1,
                                      !.had_record = \E k \in 1..Len(store) : store[k].entry_hash = HashOf(o),
                                      !.result = IF DedupSkips(found) THEN "skipped_dup" ELSE "pending"]]
    /\ UNCHANGED <<toggl, entries, apiVars, runs, edits, logged, synced, prev>>
    /\ UNCHANGED <<store, lastOp, ret, live>>

\* sync_tracker.is_entry_synced raises (database locked, unreadable or
\* corrupt): line 117 is outside every try, the exception leaves sync
DedupFails ==
    /\ pc = "loop"
    /\ idx < Len(entries)
    /\ idx' = idx + 1
    /\ pc' = "crashed"
    /\ NoLocals
    /\ trace' = [trace EXCEPT ![idx + 1] = [@ EXCEPT !.dedup_checks = @ + 1, !.result = "crashed"]]
    /\ UNCHANGED <<toggl, entries, runs, edits, logged, synced, prev>>
    /\ UNCHANGED <<store, lastOp, ret, live>>

\* the for loop is exhausted: print_summary and return
Finish_mut_waits ==
    /\ pc = "loop"
    /\ idx = Len(entries)
    /\ UNCHANGED <<storeVars, syncVars>>

Finish ==
    /\ pc = "loop"
    /\ idx = Len(entries)
    /\ pc' = "done"
    /\ NoLocals
    /\ UNCHANGED <<toggl, entries, idx, runs, edits, histVars>>
    /\ UNCHANGED <<store, lastOp, ret, live>>

\* line 138: the issue looks deprecated or moved
Deprecated_mut_case_sensitive(summary) ==
    /\ summary # <<>>
    /\ \/ Contains(summary, <<"m", "o", "v", "e", "d", " ", "t", "o">>)
       \/ Contains(summary, <<"n", "o", "t", " ", "i", "n", " ", "u", "s", "e">>)

Deprecated(summary) ==
    /\ summary # <<>>
    /\ \/ Contains(Lower(summary), <<"m", "o", "v", "e", "d", " ", "t", "o">>)
       \/ Contains(Lower(summary), <<"n", "o", "t", " ", "i", "n", " ", "u", "s", "e">>)

\* jira_api.get_issue_details(issue_key) returns: lines 130-138
Validate ==
    /\ pc = "validate"
    /\ issue_key \in JiraKeys
    /\ issue_id' = JiraIssue(issue_key).id
    /\ issue_summary' = JiraIssue(issue_key).summary
    /\ pc' = IF Deprecated(issue_summary') THEN "deprecated" ELSE "submit"
    /\ trace' = [trace EXCEPT ![idx] = [@ EXCEPT !.jira_called = TRUE, !.continued = FALSE]]
    /\ UNCHANGED <<toggl, entries, idx, workVars, worklog_result, runs, edits, logged, synced, prev>>
    /\ UNCHANGED <<store, lastOp, ret, live>>

\* jira_api.get_issue_details raises (unknown key, network, HTTP status)
ValidateFails ==
    /\ pc = "validate"
    /\ pc' = "failed"
    /\ trace' = [trace EXCEPT ![idx] = [@ EXCEPT !.jira_called = TRUE, !.continued = FALSE]]
    /\ UNCHANGED <<toggl, entries, idx, workVars, apiVars, runs, edits, logged, synced, prev>>
    /\ UNCHANGED <<store, lastOp, ret, live>>

\* "Continue Anyway" at the deprecated-issue menu: lines 142-154
DeprecatedContinue ==
    /\ pc = "deprecated"
    /\ pc' = "submit"
    /\ trace' = [trace EXCEPT ![idx].continued = TRUE]
    /\ UNCHANGED <<toggl, entries, idx, workVars, apiVars, runs, edits, logged, synced, prev>>
    /\ UNCHANGED <<store, lastOp, ret, live>>

\* "Skip" at the deprecated-issue menu: lines 145-147
DeprecatedSkip ==
    /\ pc = "deprecated"
    /\ pc' = "loop"
    /\ trace' = [trace EXCEPT ![idx].result = "user_skipped"]
    /\ UNCHANGED <<toggl, entries, idx, workVars, apiVars, runs, edits, logged, synced, prev>>
    /\ UNCHANGED <<store, lastOp, ret, live>>

\* the text int() is given at the duration prompt
TypedDuration(inp) == input_or_default(inp.duration, IntToStr(duration))

\* "Modify Details" at the deprecated-issue menu: lines 148-153.  int() of a
\* non-number raises ValueError after issue_key was assigned; the except of
\* line 191 catches it
DeprecatedModify(inp) ==
    /\ pc = "deprecated"
    /\ edits < MaxEdits
    /\ edits' = edits + 1
    /\ issue_key' = input_or_default(inp.issue_key, issue_key)
    /\ IF IsIntLiteral(TypedDuration(inp))
       THEN /\ duration' = StrToInt(TypedDuration(inp))
            /\ entry_date_str' = input_or_default(inp.start_date, entry_date_str)
            /\ issue_description' = input_or_default(inp.description, issue_description)
            /\ pc' = "validate"
       ELSE /\ UNCHANGED <<duration, entry_date_str, issue_description>>
            /\ pc' = "failed"
    /\ UNCHANGED <<toggl, entries, idx, apiVars, runs, histVars>>
    /\ UNCHANGED <<store, lastOp, ret, live>>

\* jira_tempo_api.add_worklog returns: lines 156-162
Submit_mut_sends_original(result) ==
    /\ pc = "submit"
    /\ worklog_result' = Some(result)
    /\ pc' = "record"
    /\ logged' = [r \in RawIds |-> IF r \in entries[idx].members THEN logged[r] + 1 ELSE logged[r]]
    /\ trace' = [trace EXCEPT ![idx] =
                    [@ EXCEPT !.tempo_called = TRUE,
                              !.tempo_ok = @ + 1,
                              !.sent = [OriginalArgs(entries[idx]) EXCEPT !.toggl_ids = <<>>],
                              !.sent_id = JiraIssue(original_issue_key(entries[idx])).id]]
    /\ UNCHANGED <<toggl, entries, idx, workVars, issue_id, issue_summary, runs, edits, synced, prev>>
    /\ UNCHANGED <<store, lastOp, ret, live>>

Submit(result) ==
    /\ pc = "submit"
    /\ worklog_result' = Some(result)
    /\ pc' = "record"
    /\ logged' = [r \in RawIds |-> IF r \in entries[idx].members THEN logged[r] + 1 ELSE logged[r]]
    /\ trace' = [trace EXCEPT ![idx] =
                    [@ EXCEPT !.tempo_called = TRUE,
                              !.tempo_ok = @ + 1,
                              !.sent = Args(<<>>, issue_key, issue_description, duration, entry_date_str),
                              !.sent_id = issue_id]]
    /\ UNCHANGED <<toggl, entries, idx, workVars, issue_id, issue_summary, runs, edits, synced, prev>>
    /\ UNCHANGED <<store, lastOp, ret, live>>

\* jira_tempo_api.add_worklog raises
SubmitFails ==
    /\ pc = "submit"
    /\ pc' = "failed"
    /\ trace' = [trace EXCEPT ![idx] =
                    [@ EXCEPT !.tempo_called = TRUE,
                              !.sent = Args(<<>>, issue_key, issue_description, duration, entry_date_str),
                              !.sent_id = issue_id]]
    /\ UNCHANGED <<toggl, entries, idx, workVars, apiVars, runs, edits, logged, synced, prev>>
    /\ UNCHANGED <<store, lastOp, ret, live>>

\* line 178 and line 184
manually_modified(o) ==
    o.issue_key # issue_key \/ o.duration # duration \/ o.start_date # entry_date_str

\* the additional_data of lines 174-185 (the date range of the run, a
\* constant of the run, is left out)
AdditionalData(o) ==
    [issue_id |-> issue_id,
     issue_summary |-> issue_summary,
     manually_modified |-> manually_modified(o),
     actual_synced_details |->
        IF manually_modified(o)
        THEN Some(Typed(issue_key, duration, entry_date_str, issue_description))
        ELSE None]

\* worklog_result.get("tempoWorklogId")
TempoWorklogId(result) == result.tempoWorklogId

\* the values record_sync is called with in line 167
RecordArgs_mut_working(e) ==
    Args(original_toggl_ids(e), issue_key, issue_description, duration, entry_date_str)

RecordArgs(e) == OriginalArgs(e)

\* datetime.now() in a sync run: later than that of every row written before
Now == Len(store)

\* sync_tracker.record_sync(...) of lines 164-189, at the time t
Record(t) ==
    /\ pc = "record"
    /\ LET e == entries[idx]
           o == RecordArgs(e)
           w == CHOOSE r \in worklog_result : TRUE
       IN  /\ store' = record_sync(store, o.toggl_ids, o.issue_key, o.description, o.duration, o.start_date, TempoWorklogId(w), Some(AdditionalData(OriginalArgs(e))), t)
           /\ synced' = synced \cup {[entry |-> e, run |-> runs, manual |-> trace[idx].manual]}
    /\ pc' = "loop"
    /\ trace' = [trace EXCEPT ![idx] = [@ EXCEPT !.records = @ + 1, !.record_calls = @ + 1, !.result = "synced"]]
    /\ UNCHANGED <<toggl, entries, idx, workVars, apiVars, runs, edits, logged, prev>>
    /\ UNCHANGED <<lastOp, ret, live>>

\* errors record_sync may raise for one entry
MaxRecordErrors == 1

\* sync_tracker.record_sync raises (database locked, disk full): the call of
\* line 167 is inside the try of line 128, so the except of line 191 catches
\* the error and shows the failure menu; no row was written
RecordFails ==
    /\ pc = "record"
    /\ trace[idx].tempo_ok <= MaxRecordErrors
    /\ pc' = "failed"
    /\ trace' = [trace EXCEPT ![idx].record_calls = @ + 1]
    /\ UNCHANGED <<toggl, entries, idx, workVars, apiVars, runs, edits, logged, synced, prev>>
    /\ UNCHANGED <<store, lastOp, ret, live>>

\* the options of the failure menu, of which input_choice returns one: lines
\* 204-205
FailureOptions == {"Retry", "Skip", "Manual Entry", "Open JIRA Issue", "Exit"}

\* "Retry" at the failure menu: lines 207-209
Retry_mut_resets ==
    /\ pc = "failed"
    /\ pc' = "validate"
    /\ issue_key' = original_issue_key(entries[idx])
    /\ issue_description' = original_issue_description(entries[idx])
    /\ duration' = original_duration(entries[idx])
    /\ entry_date_str' = original_entry_date_str(entries[idx])
    /\ UNCHANGED <<toggl, entries, idx, apiVars, runs, edits, histVars>>
    /\ UNCHANGED <<store, lastOp, ret, live>>

Retry ==
    /\ pc = "failed"
    /\ "Retry" \in FailureOptions
    /\ pc' = "validate"
    /\ UNCHANGED <<toggl, entries, idx, workVars, apiVars, runs, edits, histVars>>
    /\ UNCHANGED <<store, lastOp, ret, live>>

\* "Skip" at the failure menu: lines 211-213
Skip_mut_tries_again ==
    /\ pc = "failed"
    /\ pc' = "validate"
    /\ trace' = [trace EXCEPT ![idx].result = "user_skipped"]
    /\ UNCHANGED <<toggl, entries, idx, workVars, apiVars, runs, edits, logged, synced, prev>>
    /\ UNCHANGED <<store, lastOp, ret, live>>

Skip ==
    /\ pc = "failed"
    /\ "Skip" \in FailureOptions
    /\ pc' = "loop"
    /\ trace' = [trace EXCEPT ![idx].result = "user_skipped"]
    /\ UNCHANGED <<toggl, entries, idx, workVars, apiVars, runs, edits, logged, synced, prev>>
    /\ UNCHANGED <<store, lastOp, ret, live>>

\* "Exit" at the failure menu: lines 215-217, exit(1)
Exit_mut_next_entry ==
    /\ pc = "failed"
    /\ pc' = "loop"
    /\ UNCHANGED <<toggl, entries, idx, workVars, apiVars, runs, edits, histVars>>
    /\ UNCHANGED <<store, lastOp, ret, live>>

Exit ==
    /\ pc = "failed"
    /\ "Exit" \in FailureOptions
    /\ pc' = "exited"
    /\ NoLocals
    /\ UNCHANGED <<toggl, entries, idx, runs, edits, histVars>>
    /\ UNCHANGED <<store, lastOp, ret, live>>

\* "Manual Entry" at the failure menu: lines 219-226.  Here int() raises
\* inside the except block: nothing catches it and the run ends
ManualEntry(inp) ==
    /\ pc = "failed"
    /\ "Manual Entry" \in FailureOptions
    /\ edits < MaxEdits
    /\ edits' = edits + 1
    /\ IF IsIntLiteral(TypedDuration(inp))
       THEN /\ issue_key' = input_or_default(inp.issue_key, issue_key)
            /\ duration' = StrToInt(TypedDuration(inp))
            /\ entry_date_str' = input_or_default(inp.start_date, entry_date_str)
            /\ issue_description' = input_or_default(inp.description, issue_description)
            /\ pc' = "validate"
            /\ trace' = [trace EXCEPT ![idx].manual = @ \/ <<issue_key', duration', entry_date_str', issue_description'>> # <<issue_key, duration, entry_date_str, issue_description>>]
            /\ UNCHANGED apiVars
       ELSE /\ NoLocals
            /\ pc' = "crashed"
            /\ trace' = [trace EXCEPT ![idx].result = "crashed"]
    /\ UNCHANGED <<toggl, entries, idx, runs, logged, synced, prev>>
    /\ UNCHANGED <<store, lastOp, ret, live>>

\* "Open JIRA Issue" at the failure menu: lines 228-237; os.system opens the
\* issue's page in the browser, which changes nothing sync reads, and after
\* Enter the loop goes round again
OpenJiraIssue_mut_submits ==
    /\ pc = "failed"
    /\ "Open JIRA Issue" \in FailureOptions
    /\ pc' = "submit"
    /\ UNCHANGED <<toggl, entries, idx, workVars, apiVars, runs, edits, histVars>>
    /\ UNCHANGED <<store, lastOp, ret, live>>

OpenJiraIssue ==
    /\ pc = "failed"
    /\ "Open JIRA Issue" \in FailureOptions
    /\ pc' = "validate"
    /\ UNCHANGED <<toggl, entries, idx, workVars, apiVars, runs, edits, histVars>>
    /\ UNCHANGED <<store, lastOp, ret, live>>

\* the exit status of the process once it has ended: exit(1) of line 217, 1
\* of an exception nothing catches, 0 of a return from sync
ExitStatus ==
    IF pc \in {"exited", "crashed"} THEN Some(1)
    ELSE IF pc = "done" THEN Some(0)
    ELSE None

pureVars == <<hashVars, fetchVars, parseVars, dateVars, loaderVars, procs>>

vars == <<pureVars, storeVars, syncVars>>

\* the state before the first call: the inputs of the pure functions drawn
\* from hs, fs and ps, the table as _init_database creates it, no sync run
\* started
InitFrom(hs, fs, ps, ds) ==
    /\ h_in \in hs
    /\ h_out = [i \in 1..2 |-> None]
    /\ f_in \in fs
    /\ f_out = None
    /\ p_in \in ps
    /\ p_out = None
    /\ d_in \in ds
    /\ d_out = DateStart
    /\ procs = [r \in 1..2 |-> [pc |-> "idle", idx |-> 0]]
    /\ at = [pos |-> "try", op |-> "", raised |-> FALSE]
    /\ loader = [message |-> "", running |-> FALSE, thread |-> "none", spinner_index |-> 0]
    /\ store = init_database(None)
    /\ lastOp = Op("init", NoArgs, HashOf(NoArgs), FALSE)
    /\ ret = None
    /\ live = {}
    /\ toggl = {e \in RawPool : e.id = 1}
    /\ pc = "idle"
    /\ entries = <<>>
    /\ idx = 0
    /\ issue_key = <<>>
    /\ issue_description = <<>>
    /\ duration = 0
    /\ entry_date_str = <<>>
    /\ issue_id = ""
    /\ issue_summary = <<>>
    /\ worklog_result = None
    /\ runs = 0
    /\ edits = 0
    /\ trace = <<>>
    /\ logged = [r \in RawIds |-> 0]
    /\ synced = {}
    /\ prev = NoPrev

\* inputs of the functions that a specification leaves aside
HashIdle == [i \in 1..2 |-> Args(<<1>>, <<"A">>, <<>>, 60, D15)]
FetchIdle == [resp |-> <<>>, cfg |-> FetchConfig(FALSE, 0, {})]
ParseIdle == <<>>

InitHash == InitFrom([1..2 -> HashArgs], {FetchIdle}, {ParseIdle}, {DateIdle})

InitFetch == InitFrom({HashIdle}, FetchInputs \cup FilterInputs, {ParseIdle}, {DateIdle})

InitParse == InitFrom({HashIdle}, {FetchIdle}, ParseDescs, {DateIdle})

Init == InitFrom({HashIdle}, {FetchIdle}, {ParseIdle}, {DateIdle})

InitDates == InitFrom({HashIdle}, {FetchIdle}, {ParseIdle}, DateInputs)

(***************************************************************************)
(* Specifications.                                                         *)
(***************************************************************************)
\* the fingerprint function applied to two argument tuples
NextHash ==
    \E i \in 1..2 : GenerateEntryHash(i) /\ UNCHANGED <<fetchVars, parseVars, dateVars, loaderVars, procs, storeVars, syncVars>>

SpecHash == InitHash /\ [][NextHash]_vars

\* get_time_entries applied to one response
NextFetch ==
    GetTimeEntries /\ UNCHANGED <<hashVars, parseVars, dateVars, loaderVars, procs, storeVars, syncVars>>

SpecFetch == InitFetch /\ [][NextFetch]_vars

\* the identity parse applied to one raw description
NextParse ==
    ParseIdentity /\ UNCHANGED <<hashVars, fetchVars, dateVars, loaderVars, procs, storeVars, syncVars>>

SpecParse == InitParse /\ [][NextParse]_vars

\* any sequence of SyncTracker calls on one database file
NextStore ==
    \/ OpenTracker /\ UNCHANGED <<pureVars, syncVars>>
    \/ \E a \in StoreArgs, x \in StoreExtras, t \in Clock :
            RecordSync(a, x, t) /\ UNCHANGED <<pureVars, syncVars>>
    \/ \E a \in StoreArgs : IsEntrySynced(a) /\ UNCHANGED <<pureVars, syncVars>>
    \/ \E a \in StoreArgs : DeleteSyncRecord(HashOf(a)) /\ UNCHANGED <<pureVars, syncVars>>
    \/ ClearAllRecords /\ UNCHANGED <<pureVars, syncVars>>

SpecStore == Init /\ [][NextStore]_vars

\* the dates of a sync command, up to the fetch
NextDates ==
    \/ Main /\ UNCHANGED <<hashVars, fetchVars, parseVars, loaderVars, procs, storeVars, syncVars>>
    \/ \E status_ok \in BOOLEAN : SyncFetch(status_ok) /\ UNCHANGED <<hashVars, fetchVars, parseVars, loaderVars, procs, storeVars, syncVars>>

SpecDates == InitDates /\ [][NextDates]_vars

\* the main thread and the spinner thread during one sync run
NextLoader ==
    \/ \E message \in {"Validating JIRA issue", "Syncing to Tempo"} : LoaderEnter(message) /\ UNCHANGED <<hashVars, fetchVars, parseVars, dateVars, procs, storeVars, syncVars>>
    \/ \E raised \in BOOLEAN : LoaderBody(raised) /\ UNCHANGED <<hashVars, fetchVars, parseVars, dateVars, procs, storeVars, syncVars>>
    \/ LoaderStop /\ UNCHANGED <<hashVars, fetchVars, parseVars, dateVars, procs, storeVars, syncVars>>
    \/ LoaderJoin /\ UNCHANGED <<hashVars, fetchVars, parseVars, dateVars, procs, storeVars, syncVars>>
    \/ \E deprecated \in BOOLEAN : AfterLoader(deprecated) /\ UNCHANGED <<hashVars, fetchVars, parseVars, dateVars, procs, storeVars, syncVars>>
    \/ \E raised \in BOOLEAN : RecordStep(raised) /\ UNCHANGED <<hashVars, fetchVars, parseVars, dateVars, procs, storeVars, syncVars>>
    \/ \E choice \in FailureOptions : FailureMenu(choice) /\ UNCHANGED <<hashVars, fetchVars, parseVars, dateVars, procs, storeVars, syncVars>>
    \/ \E choice \in {"Continue Anyway", "Modify Details", "Skip"} : DeprecatedMenu(choice) /\ UNCHANGED <<hashVars, fetchVars, parseVars, dateVars, procs, storeVars, syncVars>>
    \/ \E valid \in BOOLEAN : PromptAnswered(valid) /\ UNCHANGED <<hashVars, fetchVars, parseVars, dateVars, procs, storeVars, syncVars>>
    \/ NextEntry /\ UNCHANGED <<hashVars, fetchVars, parseVars, dateVars, procs, storeVars, syncVars>>
    \/ SpinCheck /\ UNCHANGED <<hashVars, fetchVars, parseVars, dateVars, procs, storeVars, syncVars>>
    \/ SpinWrite /\ UNCHANGED <<hashVars, fetchVars, parseVars, dateVars, procs, storeVars, syncVars>>

SpecLoader == Init /\ [][NextLoader]_vars

\* two sync processes interleaved at their store calls
NextTwoRuns ==
    \/ \E r \in 1..2 : RunStart(r) /\ UNCHANGED <<hashVars, fetchVars, parseVars, dateVars, loaderVars, syncVars>>
    \/ \E r \in 1..2 : RunCheck(r) /\ UNCHANGED <<hashVars, fetchVars, parseVars, dateVars, loaderVars, syncVars>>
    \/ \E r \in 1..2 : RunSubmit(r) /\ UNCHANGED <<hashVars, fetchVars, parseVars, dateVars, loaderVars, syncVars>>
    \/ \E r \in 1..2, t \in Clock : RunRecord(r, t) /\ UNCHANGED <<hashVars, fetchVars, parseVars, dateVars, loaderVars, syncVars>>
    \/ \E r \in 1..2 : RunFinish(r) /\ UNCHANGED <<hashVars, fetchVars, parseVars, dateVars, loaderVars, syncVars>>

SpecTwoRuns == Init /\ [][NextTwoRuns]_vars

\* records written, listed and cleared (sync_records_cli.py list, stats, clear)
NextList ==
    \/ \E a \in StoreArgs, t \in Clock :
            RecordSync(a, NoExtras, t) /\ UNCHANGED <<pureVars, syncVars>>
    \/ \E sd \in ListBounds, ed \in ListBounds :
            ListSyncedEntries(sd, ed) /\ UNCHANGED <<pureVars, syncVars>>
    \/ \E confirm \in BOOLEAN : ClearAll(confirm) /\ UNCHANGED <<pureVars, syncVars>>

SpecList == Init /\ [][NextList]_vars

\* sync runs, one after the other, on one database file and one Toggl account
Next ==
    \/ \E e \in RawPool : TrackEntry(e) /\ UNCHANGED pureVars
    \/ \E resp \in Orders(toggl) : StartSync(resp) /\ UNCHANGED pureVars
    \/ StartSyncFails /\ UNCHANGED pureVars
    \/ ForEntry /\ UNCHANGED pureVars
    \/ Finish /\ UNCHANGED pureVars
    \/ Validate /\ UNCHANGED pureVars
    \/ ValidateFails /\ UNCHANGED pureVars
    \/ DeprecatedContinue /\ UNCHANGED pureVars
    \/ DeprecatedSkip /\ UNCHANGED pureVars
    \/ \E inp \in ManualInputs : DeprecatedModify(inp) /\ UNCHANGED pureVars
    \/ \E result \in TempoResults : Submit(result) /\ UNCHANGED pureVars
    \/ SubmitFails /\ UNCHANGED pureVars
    \/ Record(Now) /\ UNCHANGED pureVars
    \/ Retry /\ UNCHANGED pureVars
    \/ Skip /\ UNCHANGED pureVars
    \/ Exit /\ UNCHANGED pureVars
    \/ \E inp \in ManualInputs : ManualEntry(inp) /\ UNCHANGED pureVars
    \/ OpenJiraIssue /\ UNCHANGED pureVars

Spec == Init /\ [][Next]_vars

\* one sync run, from its start to its end, in which the calls of the record
\* store may raise as well
NextRun ==
    \/ \E e \in RawPool : runs = 0 /\ TrackEntry(e) /\ UNCHANGED pureVars
    \/ \E resp \in Orders(toggl) : runs = 0 /\ StartSync(resp) /\ UNCHANGED pureVars
    \/ runs = 0 /\ StartSyncFails /\ UNCHANGED pureVars
    \/ ForEntry /\ UNCHANGED pureVars
    \/ DedupFails /\ UNCHANGED pureVars
    \/ Finish /\ UNCHANGED pureVars
    \/ Validate /\ UNCHANGED pureVars
    \/ ValidateFails /\ UNCHANGED pureVars
    \/ DeprecatedContinue /\ UNCHANGED pureVars
    \/ DeprecatedSkip /\ UNCHANGED pureVars
    \/ \E inp \in ManualInputs : DeprecatedModify(inp) /\ UNCHANGED pureVars
    \/ \E result \in TempoResults : Submit(result) /\ UNCHANGED pureVars
    \/ SubmitFails /\ UNCHANGED pureVars
    \/ Record(Now) /\ UNCHANGED pureVars
    \/ RecordFails /\ UNCHANGED pureVars
    \/ Retry /\ UNCHANGED pureVars
    \/ Skip /\ UNCHANGED pureVars
    \/ Exit /\ UNCHANGED pureVars
    \/ \E inp \in ManualInputs : ManualEntry(inp) /\ UNCHANGED pureVars
    \/ OpenJiraIssue /\ UNCHANGED pureVars

SpecRun == Init /\ [][NextRun]_vars

(* One sync run in which every step the program can take is eventually taken:
   the loop of line 91 goes on to the next entry or falls through to the
   summary, each call to JIRA, Tempo or the store returns or raises, and the
   operator answers every prompt that sync shows (lines 143-152, 205-236). *)
FairRun ==
    /\ WF_vars((ForEntry \/ DedupFails) /\ UNCHANGED pureVars)
    /\ WF_vars(Finish /\ UNCHANGED pureVars)
    /\ WF_vars((Validate \/ ValidateFails) /\ UNCHANGED pureVars)
    /\ WF_vars(((\E result \in TempoResults : Submit(result)) \/ SubmitFails) /\ UNCHANGED pureVars)
    /\ WF_vars((Record(Now) \/ RecordFails) /\ UNCHANGED pureVars)
    /\ WF_vars((Retry \/ Skip \/ Exit \/ OpenJiraIssue \/ \E inp \in ManualInputs : ManualEntry(inp)) /\ UNCHANGED pureVars)
    /\ WF_vars((DeprecatedContinue \/ DeprecatedSkip \/ \E inp \in ManualInputs : DeprecatedModify(inp)) /\ UNCHANGED pureVars)

SpecRunFair == Init /\ [][NextRun]_vars /\ FairRun

(***************************************************************************)
(* Claims about sync runs.                                                 *)
(***************************************************************************)
RowsOf(st, h) == SelectSeq(st, LAMBDA row : row.entry_hash = h)

\* C1: for every logical entry whose fingerprint (of its original toggl ids,
\* issue key, description, duration and date) already had a record in the
\* store when sync reached it, sync made neither a get_issue_details nor an
\* add_worklog call and went on: the entry is skipped as a duplicate, and
\* while it is the current entry sync is at the top of the loop or done.
C1_DedupSkipMakesNoCalls ==
    \A i \in 1..Len(trace) :
        trace[i].had_record =>
            /\ ~trace[i].jira_called
            /\ ~trace[i].tempo_called
            /\ trace[i].result = "skipped_dup"
            /\ i = idx => pc \in {"loop", "done"}

C1_Witness ==
    \E i \in 1..Len(trace) : trace[i].had_record /\ idx > i /\ pc = "validate"

C3_AtMostOneSubmissionPerRawEntry ==
    \A r \in RawIds : logged[r] <= 1

\* C4: when a run fetches the same entries as the run before it, and every
\* entry of that run ended synced or skipped as a duplicate, the run makes
\* no add_worklog call and the store stays as the earlier run left it, with
\* exactly one record per logical entry, holding the entry's original toggl
\* ids (sorted) and its original duration.
C4_SecondRunIsNoOp ==
    (prev.valid /\ prev.clean /\ prev.entries = entries) =>
        /\ \A i \in 1..Len(trace) : ~trace[i].tempo_called /\ trace[i].records = 0
        /\ store = prev.store
        /\ \A i \in 1..Len(entries) :
              LET o == OriginalArgs(entries[i])
                  rows == RowsOf(store, HashOf(o))
              IN  /\ Len(rows) = 1
                  /\ rows[1].toggl_ids = ListRepr(sorted(original_toggl_ids(entries[i])))
                  /\ rows[1].duration = original_duration(entries[i])

C4_Witness ==
    /\ pc = "done"
    /\ prev.valid /\ prev.clean /\ prev.entries = entries
    /\ Len(entries) = 2
    /\ \A i \in 1..Len(trace) : trace[i].result = "skipped_dup"

(***************************************************************************)
(* Claims about the record store and the fingerprint.                      *)
(***************************************************************************)

\* C5: a record_sync call whose fingerprint an earlier record_sync already
\* recorded (and nothing removed since) returns that same hash, leaves
\* exactly one row for it, and the row still holds the tempo_worklog_id,
\* sync_timestamp and additional_data of the first call.
C5_RecordSyncFirstWriteWins ==
    (lastOp.op = "record_sync" /\ lastOp.dup) =>
        /\ ret = Some(lastOp.h)
        /\ Len(RowsOf(store, lastOp.h)) = 1
        /\ \E l \in live :
              /\ l.h = lastOp.h
              /\ RowsOf(store, lastOp.h)[1].tempo_worklog_id = l.tempo_worklog_id
              /\ RowsOf(store, lastOp.h)[1].sync_timestamp = l.sync_timestamp
              /\ RowsOf(store, lastOp.h)[1].additional_data = l.additional_data

\* a second record_sync of a recorded hash that passed other values
C5_Witness ==
    /\ lastOp.op = "record_sync"
    /\ lastOp.dup
    /\ \E l \in live : l.h = lastOp.h /\ l.sync_timestamp = 0
                        /\ l.tempo_worklog_id = None
    /\ Len(store) >= 2

\* C6: the store never holds two records of the same entry_hash.
C6_AtMostOneRecordPerHash ==
    \A i, j \in 1..Len(store) :
        store[i].entry_hash = store[j].entry_hash => i = j

\* a duplicate record_sync was attempted on a store of several records
C6_Witness ==
    /\ lastOp.op = "record_sync"
    /\ lastOp.dup
    /\ Len(store) >= 2

\* C7: two entries have the same fingerprint if and only if their identity
\* tuples are equal.
C7_SameFingerprintIffSameTuple ==
    (h_out[1] # None /\ h_out[2] # None) =>
        ((h_out[1] = h_out[2]) <=> SameTuple(h_in[1], h_in[2]))

\* C8: a record_sync followed by is_entry_synced of the same entry with its
\* ids in any order: both calls compute the same digest and the answer is
\* true.
C8_OrderIndependent ==
    [][(/\ lastOp.op = "record_sync"
        /\ lastOp'.op = "is_entry_synced"
        /\ SameTuple(lastOp.args, lastOp'.args))
          => (lastOp'.h = lastOp.h /\ ret' = Some(TRUE))]_vars

\* is_entry_synced asked with the ids in another order than recorded
C8_Witness ==
    /\ lastOp.op = "is_entry_synced"
    /\ lastOp.args.toggl_ids = <<2, 1>>
    /\ ret = Some(TRUE)
    /\ store # <<>>
    /\ \A i \in 1..Len(store) : store[i].toggl_ids = ListRepr(<<1, 2>>)

\* number of fields among issue_key, description, duration, start_date in
\* which two argument tuples differ
DiffCount(a, b) ==
    (IF a.issue_key # b.issue_key THEN 1 ELSE 0)
    + (IF a.description # b.description THEN 1 ELSE 0)
    + (IF a.duration # b.duration THEN 1 ELSE 0)
    + (IF a.start_date # b.start_date THEN 1 ELSE 0)

\* C9: with the toggl_ids fixed, changing exactly one of issue_key,
\* description, duration, start_date changes the digest.
C9_OneFieldChangesHash ==
    (/\ h_out[1] # None
     /\ h_out[2] # None
     /\ h_in[1].toggl_ids = h_in[2].toggl_ids
     /\ DiffCount(h_in[1], h_in[2]) = 1)
        => h_out[1] # h_out[2]

\* both digests computed for tuples that differ in the duration alone
C9_Witness ==
    /\ h_out[1] # None
    /\ h_out[2] # None
    /\ h_in[1].toggl_ids = h_in[2].toggl_ids
    /\ DiffCount(h_in[1], h_in[2]) = 1
    /\ h_in[1].duration # h_in[2].duration
    /\ h_in[1].issue_key = <<"A", "|", "B">>

\* C10: is_entry_synced returns true exactly when the hash of its arguments
\* was recorded by an earlier record_sync and not removed since, and the
\* call leaves the table as it was.
C10_IsEntrySyncedExact ==
    [][lastOp'.op = "is_entry_synced"
          => (/\ ret' = Some(lastOp'.h \in LiveHashes)
              /\ store' = store)]_vars

\* is_entry_synced answered false for an entry recorded and then deleted
C10_Witness ==
    /\ lastOp.op = "is_entry_synced"
    /\ ret = Some(FALSE)
    /\ lastOp.h \notin LiveHashes
    /\ store # <<>>

\* C11: delete_sync_record(h) returns True exactly when a record with
\* entry_hash h was in the store before the call; afterwards no record with
\* hash h is left, and the records of every other hash are the same as
\* before, in the same order.
C11_DeleteRemovesExactlyThatRecord ==
    [][lastOp'.op = "delete_sync_record" =>
          /\ ret' = Some(\E i \in 1..Len(store) : store[i].entry_hash = lastOp'.h)
          /\ \A i \in 1..Len(store') : store'[i].entry_hash # lastOp'.h
          /\ \A g \in {store[i].entry_hash : i \in 1..Len(store)} \ {lastOp'.h} :
                RowsOf(store', g) = RowsOf(store, g)
          /\ \A i, j \in 1..Len(store') :
                i < j => \E k, m \in 1..Len(store) :
                            k < m /\ store[k] = store'[i] /\ store[m] = store'[j]]_vars

C11_Witness ==
    /\ lastOp.op = "delete_sync_record"
    /\ ret = Some(TRUE)
    /\ Len(store) >= 2

\* C12: clear_all_records on a store of N records returns N and leaves no
\* record; on an empty store it returns 0.
C12_ClearReturnsCountAndEmpties ==
    [][lastOp'.op = "clear_all_records" =>
          /\ ret' = Some(Len(store))
          /\ store' = <<>>]_vars

C12_Witness ==
    /\ lastOp.op = "clear_all_records"
    /\ ret = Some(3)
    /\ store = <<>>

\* the calendar day of a YYYY-MM-DD text as a number
DateNum(d) ==
    StrToInt(Slice(d, 1, 4)) * 10000 + StrToInt(Slice(d, 6, 7)) * 100 + StrToInt(Slice(d, 9, 10))

\* the rows a list_synced_entries call returned
Listed(r) == CHOOSE rows \in r : TRUE

\* C13: list_synced_entries(start_date, end_date) returns exactly the stored
\* records whose start_date d has start_date <= d <= end_date as calendar
\* days, a bound that is not given (None) not being applied and both bounds
\* being inclusive; without bounds it returns every record.  The call
\* leaves the store as it was.
C13_ListFiltersByInclusiveBounds ==
    [][lastOp'.op = "list_synced_entries" =>
          LET q == lastOp'.args
              want == {i \in 1..Len(store) :
                          /\ \A b \in q.start_date : DateNum(b) <= DateNum(store[i].start_date)
                          /\ \A b \in q.end_date : DateNum(store[i].start_date) <= DateNum(b)}
              out == Listed(ret')
          IN  /\ Len(out) = Cardinality(want)
              /\ {out[k] : k \in 1..Len(out)} = {store[i] : i \in want}
              /\ store' = store]_vars

C13_Witness ==
    /\ lastOp.op = "list_synced_entries"
    /\ lastOp.args = [start_date |-> Some(D15), end_date |-> Some(D15)]
    /\ Len(store) = 3
    /\ Len(Listed(ret)) = 2

\* C14 (as amended): the sequence list_synced_entries returns is ordered by
\* start_date ascending and, among records of the same start_date, by
\* sync_timestamp ascending.
C14_ListOrderedByDateThenTimestamp ==
    (lastOp.op = "list_synced_entries") =>
        LET out == Listed(ret) IN
        \A a, b \in 1..Len(out) :
            a < b =>
                \/ DateNum(out[a].start_date) < DateNum(out[b].start_date)
                \/ /\ out[a].start_date = out[b].start_date
                   /\ out[a].sync_timestamp <= out[b].sync_timestamp

C14_Witness ==
    /\ lastOp.op = "list_synced_entries"
    /\ Len(Listed(ret)) = 3
    /\ Listed(ret) # store
    /\ \E a, b \in 1..3 :
          /\ Listed(ret)[a].start_date = Listed(ret)[b].start_date
          /\ Listed(ret)[a].sync_timestamp < Listed(ret)[b].sync_timestamp

\* C14 (as stated): the sequence is ordered by start_date ascending and,
\* among records of the same start_date, by sync_timestamp ascending, which
\* is the order in which they were recorded (the order of the rows in the
\* table).
C14_ListOrderedAsRecorded ==
    (lastOp.op = "list_synced_entries") =>
        LET out == Listed(ret)
            pos(row) == CHOOSE k \in 1..Len(store) : store[k] = row
        IN  \A a, b \in 1..Len(out) :
                a < b =>
                    \/ DateNum(out[a].start_date) < DateNum(out[b].start_date)
                    \/ /\ out[a].start_date = out[b].start_date
                       /\ out[a].sync_timestamp <= out[b].sync_timestamp
                       /\ pos(out[a]) < pos(out[b])

\* C15: constructing a SyncTracker on a database file that already holds
\* the table leaves every record in it as it was: the table is created only
\* when it is absent.
C15_OpeningKeepsRecords ==
    [][lastOp'.op = "SyncTracker" => store' = store]_vars

C15_Witness ==
    /\ lastOp.op = "SyncTracker"
    /\ Len(store) = 3

(***************************************************************************)
(* Claims about grouping, rounding and parsing.                            *)
(***************************************************************************)
\* the raw entries among es that share the description and the day of e
GroupOf(e, es) ==
    {r \in es : r.description = e.description /\ StartDay(r.start) = StartDay(e.start)}

RECURSIVE SumDuration(_)
SumDuration(es) ==
    IF es = {} THEN 0
    ELSE LET r == CHOOSE x \in es : TRUE IN r.duration + SumDuration(es \ {r})

\* C16: during a run, the raw entries of one description and one day are one
\* logical entry: its duration is the (rounded) sum of theirs, and the
\* source ids sync uses for the dedup check and for the sync record are the
\* ids of all of them; a raw entry sharing its key with no other is an
\* entry of its own.
C16_GroupKeepsEveryMemberId ==
    Running =>
        /\ Len(entries) = Cardinality({GroupOf(r, toggl) : r \in toggl})
        /\ \A i \in 1..Len(entries) :
              LET e == entries[i]
                  ids == original_toggl_ids(e)
              IN  /\ e.duration = PyRound(SumDuration(GroupOf(e, toggl)), RoundSecondsTo) * RoundSecondsTo
                  /\ {ids[k] : k \in 1..Len(ids)} = {r.id : r \in GroupOf(e, toggl)}

\* the fields of a logical entry that the sync loop reads
Shape(e) == [id |-> e.id, start |-> e.start, description |-> e.description, duration |-> e.duration]

\* C17: during a run, the logical entries (representative id, start, summed
\* duration) and the fingerprints sync checks are those that
\* get_time_entries yields for every order in which the API may return the
\* same raw entries.
C17_ResultIndependentOfApiOrder ==
    Running =>
        \A resp \in Orders(toggl) :
            LET other == get_time_entries(resp, TRUE, RoundSecondsTo, <<>>, ExcludeProjects, ExcludeTags, {})
            IN  /\ Len(other) = Len(entries)
                /\ \A i \in 1..Len(entries) :
                      /\ Shape(other[i]) = Shape(entries[i])
                      /\ HashOf(OriginalArgs(other[i])) = HashOf(OriginalArgs(entries[i]))

\* C19: rounding is applied once per logical entry, after grouping: during
\* a run the duration of each logical entry is round(S/60)*60 for the sum S
\* of the durations of its raw entries, and every duration that sync passes
\* to the dedup check or that a sync record holds is a multiple of 60.
C19_RoundedOnceAfterGrouping ==
    /\ Running =>
          \A i \in 1..Len(entries) :
              LET e == entries[i] IN
              /\ e.duration = PyRound(SumDuration(GroupOf(e, toggl)), RoundSecondsTo) * RoundSecondsTo
              /\ OriginalArgs(e).duration % RoundSecondsTo = 0
    /\ \A k \in 1..Len(store) : store[k].duration % RoundSecondsTo = 0

\* a record of a group whose members, rounded one by one, add up to less
C19_Witness ==
    /\ Running
    /\ \E i \in 1..idx :
          LET e == entries[i]
              G == GroupOf(e, toggl)
          IN  /\ Cardinality(G) = 2
              /\ SumDuration({[r EXCEPT !.duration = PyRound(@, RoundSecondsTo) * RoundSecondsTo] : r \in G}) # e.duration
              /\ \E k \in 1..Len(store) :
                    /\ store[k].entry_hash = HashOf(OriginalArgs(e))
                    /\ store[k].duration = e.duration

\* the duration of the logical entry e of a result before rounding: the sum
\* over the raw entries of the response that are part of it
Unrounded(e, resp) ==
    SumDuration({resp[k] : k \in {j \in 1..Len(resp) : resp[j].id \in e.members}})

Abs(n) == IF n < 0 THEN 0 - n ELSE n

\* C18: with round_seconds_to = g > 0 and durations d >= 0, each returned
\* duration is round(d/g)*g for the duration d it had before rounding: a
\* multiple of g that differs from d by at most g/2, the even multiple when
\* d lies exactly between two multiples; 1870 with g = 60 gives 1860.
C18_RoundsToNearestMultipleHalfEven ==
    (f_out # None /\ f_in.cfg.round_seconds_to > 0) =>
        LET g == f_in.cfg.round_seconds_to
            out == CHOOSE r \in f_out : TRUE
        IN  \A j \in 1..Len(out) :
                LET d == Unrounded(out[j], f_in.resp)
                    n == out[j].duration
                IN  /\ n % g = 0
                    /\ 2 * Abs(n - d) <= g
                    /\ 2 * Abs(n - d) = g => (n \div g) % 2 = 0
                    /\ (d = 1870 /\ g = 60) => n = 1860

\* a result with 1870 rounded to 1860, an exact half rounded down to an even
\* multiple and an exact half rounded up to one
C18_Witness ==
    /\ f_out # None
    /\ f_in.cfg.round_seconds_to = 60
    /\ LET out == CHOOSE r \in f_out : TRUE IN
       /\ \E j \in 1..Len(out) : Unrounded(out[j], f_in.resp) = 1870 /\ out[j].duration = 1860
       /\ \E j \in 1..Len(out) : Unrounded(out[j], f_in.resp) = 30 /\ out[j].duration = 0
       /\ \E j \in 1..Len(out) : Unrounded(out[j], f_in.resp) = 90 /\ out[j].duration = 120

\* the text after the first "--" of s, up to the next "--" or the end
AfterDashes(s) ==
    LET k == Find(s, <<"-", "-">>, 1)
        rest == Slice(s, k + 2, Len(s))
        m == Find(rest, <<"-", "-">>, 1)
    IN  IF m = 0 THEN rest ELSE Slice(rest, 1, m - 1)

\* C20 (as amended): for a raw description without a colon the parse gives
\* the whole string, stripped, as the issue key; the description is empty
\* when the string holds no "--", and else is the stripped text between the
\* first "--" and the next one or the end of the string.
C20_NoColonParse ==
    (p_out # None /\ ~Contains(p_in, <<":">>)) =>
        LET out == CHOOSE r \in p_out : TRUE IN
        /\ out.issue_key = Strip(p_in)
        /\ ~Contains(p_in, <<"-", "-">>) => out.description = <<>>
        /\ Contains(p_in, <<"-", "-">>) => out.description = Strip(AfterDashes(p_in))

C20_Witness ==
    /\ p_out # None
    /\ ~Contains(p_in, <<":">>)
    /\ Contains(p_in, <<"-", "-">>)
    /\ \E r \in p_out : r.description # <<>> /\ r.issue_key = p_in

\* C20 (as stated): for a raw description without a colon the parse gives
\* the whole string as the issue key and an empty description, also when
\* the string contains "--".
C20_NoColonEmptyDescription ==
    (p_out # None /\ ~Contains(p_in, <<":">>)) =>
        LET out == CHOOSE r \in p_out : TRUE IN
        /\ out.issue_key = Strip(p_in)
        /\ out.description = <<>>

\* C21: for every raw description the parsed issue key is the stripped text
\* before the first colon, and the parsed description is the stripped text
\* after the first "--", all of it, or empty when there is no "--".
C21_DescriptionIsAllTextAfterDelimiter ==
    p_out # None =>
        LET out == CHOOSE r \in p_out : TRUE
            c == Find(p_in, <<":">>, 1)
            k == Find(p_in, <<"-", "-">>, 1)
        IN  /\ out.issue_key = Strip(IF c = 0 THEN p_in ELSE Slice(p_in, 1, c - 1))
            /\ out.description = IF k = 0 THEN <<>> ELSE Strip(Slice(p_in, k + 2, Len(p_in)))

(***************************************************************************)
(* Claims about the recovery menus of a sync run.                          *)
(***************************************************************************)
\* C22: when the operator chooses Exit at the failure menu the process ends
\* with a non-zero exit status, no record is written for the current entry,
\* and no later entry of the run is dedup-checked, validated or submitted.
C22_ExitEndsRunWithoutRecord ==
    [][/\ Exit =>
            /\ ExitStatus' = Some(1)
            /\ store' = store
            /\ trace'[idx].records = 0
            /\ \A i \in (idx + 1)..Len(entries) : trace'[i] = NoTrace
       /\ pc = "exited" => UNCHANGED <<store, idx, trace, logged, synced>>]_vars

\* the operator chose Exit after a failed submission, with entries left
C22_Witness ==
    /\ pc = "exited"
    /\ idx < Len(entries)
    /\ trace[idx].tempo_called
    /\ trace[idx].tempo_ok = 0
    /\ trace[idx + 1] = NoTrace

\* C23: an error raised by the record store during a sync run, from
\* is_entry_synced or from record_sync, leaves sync uncaught and ends the
\* run with a non-zero status; it never leads to the failure menu.
C23_StoreErrorsEndTheRun ==
    [][(DedupFails \/ RecordFails) => (ExitStatus' = Some(1) /\ pc' # "failed")]_vars

\* C24: in a sync run record_sync is called for an entry only after
\* add_worklog has returned successfully for that entry, and at most once per
\* entry; an entry skipped as duplicate, skipped by the operator or never
\* submitted successfully gets no new record.
C24_RecordOnceAfterSuccess ==
    [][/\ (Record(Now) \/ RecordFails) =>
            /\ trace[idx].tempo_ok >= 1
            /\ worklog_result # None
            /\ trace[idx].record_calls = 0
       /\ \A i \in 1..Len(trace') :
            (trace'[i].result \in {"skipped_dup", "user_skipped"} \/ trace'[i].tempo_ok = 0) =>
                trace'[i].records = 0]_vars

\* C25: when the operator chooses Skip, at the failure menu or at the
\* deprecated-issue menu, no record is written for the entry and nothing more
\* is submitted for it in this run; the dedup check of a later run on the
\* unchanged entry does not find it, so that the entry is attempted again.
C25_SkipWritesNoRecord ==
    [][/\ (Skip \/ DeprecatedSkip) =>
            /\ store' = store
            /\ pc' = "loop"
            /\ trace'[idx].result = "user_skipped"
       /\ ((\E result \in TempoResults : Submit(result)) \/ SubmitFails) =>
            trace[idx].result = "pending"
       /\ \A i \in 1..Len(trace') :
            trace'[i].result = "user_skipped" =>
                LET o == OriginalArgs(entries'[i])
                IN  ~DedupSkips(is_entry_synced(store', o.toggl_ids, o.issue_key, o.description, o.duration, o.start_date))]_vars

\* the first entry skipped at the failure menu after a failed submission,
\* the second one skipped at the deprecated-issue menu
C25_Witness ==
    /\ pc = "loop"
    /\ idx = 2
    /\ edits = 0
    /\ trace[1].result = "user_skipped"
    /\ trace[1].tempo_called
    /\ trace[2].result = "user_skipped"
    /\ ~trace[2].tempo_called
    /\ Deprecated(issue_summary)

C27_EditedValuesAreSubmitted ==
    [][/\ (pc = "failed" /\ pc' = "validate" /\ edits' = edits + 1) =>
            \E inp \in ManualInputs :
                /\ issue_key' = input_or_default(inp.issue_key, issue_key)
                /\ IntToStr(duration') = input_or_default(inp.duration, IntToStr(duration))
                /\ entry_date_str' = input_or_default(inp.start_date, entry_date_str)
                /\ issue_description' = input_or_default(inp.description, issue_description)
       /\ (pc \in {"validate", "deprecated", "submit"} /\ edits' = edits) => UNCHANGED workVars
       /\ (pc = "submit" /\ pc' = "record") =>
            /\ trace'[idx].sent = Args(<<>>, issue_key, issue_description, duration, entry_date_str)
            /\ trace'[idx].sent_id = JiraIssue(issue_key).id
       /\ \A i \in 1..Len(trace') :
            /\ trace'[i].dedup_checks = (IF i <= idx' THEN 1 ELSE 0)
            /\ trace'[i].manual => trace'[i].dedup_checks = 1
       /\ (pc \in {"validate", "deprecated", "submit", "record", "failed"}) => idx' = idx]_vars

\* the worklog of an entry whose issue key was edited from A to C at Manual
\* Entry has been accepted: it carries the id of C
C27_Witness ==
    /\ pc = "record"
    /\ trace[idx].manual
    /\ original_issue_key(entries[idx]) = <<"A">>
    /\ trace[idx].sent.issue_key = <<"C">>
    /\ trace[idx].sent_id = JiraIssue(<<"C">>).id
    /\ trace[idx].sent_id # JiraIssue(<<"A">>).id

\* C28: when the operator chooses Retry after a failure the working issue
\* key, duration, date and description are left as they are, and the next
\* submission attempt for the entry uses the values of the failed attempt:
\* a failed attempt leaves the working values it sent, Retry and the steps
\* up to the next attempt do not change them, and the attempt sends them.
C28_RetryResubmitsUnchanged ==
    [][/\ (pc = "submit" /\ pc' = "failed") =>
            /\ trace'[idx].sent = Args(<<>>, issue_key', issue_description', duration', entry_date_str')
            /\ UNCHANGED workVars
       /\ (pc = "failed" /\ pc' = "validate" /\ edits' = edits) =>
            UNCHANGED <<workVars, store, idx, entries>>
       /\ (pc \in {"validate", "deprecated", "submit"} /\ edits' = edits) => UNCHANGED workVars
       /\ (pc = "submit" /\ pc' \in {"record", "failed"}) =>
            trace'[idx].sent = Args(<<>>, issue_key, issue_description, duration, entry_date_str)]_vars

\* back at the validation after a failed submission of edited values, which
\* are still the working values
C28_Witness ==
    /\ pc = "validate"
    /\ trace[idx].manual
    /\ trace[idx].tempo_called
    /\ trace[idx].tempo_ok = 0
    /\ trace[idx].sent = Args(<<>>, issue_key, issue_description, duration, entry_date_str)
    /\ trace[idx].sent # [OriginalArgs(entries[idx]) EXCEPT !.toggl_ids = <<>>]

\* C29 (as amended): whenever the summary of the resolved issue contains,
\* in any case, "moved to" or "not in use", add_worklog is not called in that
\* attempt unless the operator chose Continue Anyway for it; Skip ends the
\* entry without submission; Modify Details with a numeric duration leads to
\* a new validation of the edited issue key, and with a duration that is not
\* a number to the failure menu, the issue key edited and the rest not.
C29_DeprecatedIssuePauses ==
    [][LET marked(summary) ==
                \/ Contains(Lower(summary), <<"m", "o", "v", "e", "d", " ", "t", "o">>)
                \/ Contains(Lower(summary), <<"n", "o", "t", " ", "i", "n", " ", "u", "s", "e">>)
       IN
       /\ (pc = "validate" /\ pc' # "failed") =>
            /\ issue_id' = JiraIssue(issue_key).id
            /\ issue_summary' = JiraIssue(issue_key).summary
            /\ pc' = IF marked(issue_summary') THEN "deprecated" ELSE "submit"
       /\ (pc = "submit" /\ trace'[idx].tempo_called /\ marked(issue_summary)) => trace[idx].continued
       /\ (pc = "deprecated") =>
            /\ marked(issue_summary)
            /\ UNCHANGED <<store, idx, logged>>
            /\ \/ pc' = "submit" /\ trace'[idx].continued /\ UNCHANGED <<workVars, apiVars, edits>>
               \/ pc' = "loop" /\ trace'[idx].result = "user_skipped" /\ trace'[idx].tempo_ok = trace[idx].tempo_ok
               \/ pc' = "validate" /\ edits' = edits + 1 /\ ~trace'[idx].continued
               \/ pc' = "failed" /\ edits' = edits + 1 /\ UNCHANGED <<duration, entry_date_str, issue_description>>]_vars

\* Modify Details changed the issue key of a deprecated issue from B to C:
\* the loop is at the validation of C, nothing was submitted
C29_Witness ==
    /\ pc = "validate"
    /\ edits = 1
    /\ original_issue_key(entries[idx]) = <<"B">>
    /\ issue_key = <<"C">>
    /\ issue_summary = SummaryMoved
    /\ ~trace[idx].tempo_called
    /\ ~trace[idx].manual

\* C29 (as stated): as above, but Modify Details always leads to a new
\* validation of the edited issue key.
C29_ModifyAlwaysRevalidates ==
    [][LET marked(summary) ==
                \/ Contains(Lower(summary), <<"m", "o", "v", "e", "d", " ", "t", "o">>)
                \/ Contains(Lower(summary), <<"n", "o", "t", " ", "i", "n", " ", "u", "s", "e">>)
       IN
       /\ (pc = "validate" /\ pc' # "failed") =>
            /\ issue_id' = JiraIssue(issue_key).id
            /\ issue_summary' = JiraIssue(issue_key).summary
            /\ pc' = IF marked(issue_summary') THEN "deprecated" ELSE "submit"
       /\ (pc = "submit" /\ trace'[idx].tempo_called /\ marked(issue_summary)) => trace[idx].continued
       /\ (pc = "deprecated") =>
            /\ marked(issue_summary)
            /\ UNCHANGED <<store, idx, logged>>
            /\ \/ pc' = "submit" /\ trace'[idx].continued /\ UNCHANGED <<workVars, apiVars, edits>>
               \/ pc' = "loop" /\ trace'[idx].result = "user_skipped" /\ trace'[idx].tempo_ok = trace[idx].tempo_ok
               \/ pc' = "validate" /\ edits' = edits + 1 /\ ~trace'[idx].continued]_vars

\* C30: in the record written after a successful submission,
\* manually_modified is true and actual_synced_details holds the submitted
\* values whenever a submitted value (issue key, duration, date or
\* description) differs from the original one; otherwise manually_modified
\* is false and actual_synced_details is null.
C30_AuditBlobTellsEveryEdit ==
    [][(pc = "record" /\ Len(store') = Len(store) + 1) =>
        LET row == store'[Len(store')]
            o == OriginalArgs(entries[idx])
            sent == trace[idx].sent
            differs == \/ sent.issue_key # o.issue_key
                       \/ sent.duration # o.duration
                       \/ sent.start_date # o.start_date
                       \/ sent.description # o.description
        IN  /\ row.additional_data # None
            /\ \A x \in row.additional_data :
                /\ x.manually_modified = differs
                /\ x.actual_synced_details =
                        IF differs
                        THEN Some(Typed(sent.issue_key, sent.duration, sent.start_date, sent.description))
                        ELSE None]_vars

(***************************************************************************)
(* Claims about errors, termination and the commands around a sync run.    *)
(***************************************************************************)
\* C31: every error an API collaborator raises during a sync run (fetching
\* the raw entries, resolving the issue, submitting the worklog) is caught by
\* sync and leads to the failure menu of the entry instead of ending the
\* run.
C31_ApiErrorsLeadToMenu ==
    [][(StartSyncFails \/ ValidateFails \/ SubmitFails) => (pc' = "failed" /\ ExitStatus' = None)]_vars

\* C33: during a sync run no record that was in the store at the start of
\* the run is deleted or modified: every step of sync leaves each row where
\* and as it was and at most appends rows, so that the table at the start
\* of the run is a prefix of the table at any later point of it.
C33_SyncOnlyAppendsRecords ==
    [][/\ Len(store') >= Len(store)
       /\ \A k \in 1..Len(store) : store'[k] = store[k]
       /\ (runs' = runs) =>
            /\ Len(store') >= Len(prev.store)
            /\ \A k \in 1..Len(prev.store) : store'[k] = prev.store[k]]_vars

\* a second run that found a record of the first run and added its own
C33_Witness ==
    /\ runs = 2
    /\ Len(prev.store) >= 1
    /\ Len(store) > Len(prev.store)
    /\ store[1] = prev.store[1]

\* C36: within one sync run add_worklog returns successfully at most once
\* per logical entry, also when record_sync raises right after the
\* successful submission.
C36_AtMostOneAcceptedWorklogPerEntry ==
    \A i \in 1..Len(trace) : trace[i].tempo_ok <= 1

(* C37: every sync run eventually ends, and when it ended by running through
   its entries each of them is exactly one of skipped as a duplicate, synced
   or skipped by the operator; otherwise the run was aborted.  The operator
   chooses Retry, Manual Entry, Open JIRA Issue and Modify Details only
   finitely often. *)
RunEnded == pc \in {"done", "exited", "crashed"}

EveryEntrySettled ==
    /\ idx = Len(entries)
    /\ \A i \in 1..Len(trace) : trace[i].result \in {"skipped_dup", "synced", "user_skipped"}

OperatorTriesAgain ==
    \/ Retry
    \/ OpenJiraIssue
    \/ \E inp \in ManualInputs : ManualEntry(inp)
    \/ \E inp \in ManualInputs : DeprecatedModify(inp)

C39_ClearNeedsConfirm ==
    [][lastOp'.op = "clear_all" =>
         IF lastOp'.args.confirm
         THEN store' = <<>> /\ ret' = Some(Len(store))
         ELSE store' = store /\ ret' = None /\ live' = live]_vars

C39_Witness ==
    /\ lastOp.op = "clear_all"
    /\ ~lastOp.args.confirm
    /\ Len(store) = 2

(* C32: a start or end date that does not parse makes the sync command stop
   with an error before any request is sent to an API. *)
C32_BadDateStopsBeforeAnyRequest ==
    (/\ d_out.stage \in {"fetched", "error"}
     /\ ~strptime_ok(d_out.start_date) \/ ~strptime_ok(d_out.end_date)) =>
        (d_out.stage = "error" /\ d_out.requests = <<>>)

(* C34: whenever sync waits at a prompt (failure menu, deprecated-issue
   menu, Manual Entry or Modify Details input, the Enter after Open JIRA
   Issue), no spinner thread is running: running is false and the thread of
   each loader has been joined, also when the call inside the loader
   raised. *)
C34_NoSpinnerAtPrompt ==
    at.pos \in Prompts =>
        /\ ~loader.running
        /\ ~Spinning(loader)
    
C34_Witness ==
    /\ at.pos = "failure_menu"
    /\ at.raised
    /\ at.op = "Syncing to Tempo"
    /\ loader.thread = "dead"
    /\ loader.spinner_index >= 1

(* C38: with two sync runs interleaved on one store file and the same
   entries, the store never holds two records of one fingerprint, and a
   record_sync that comes second for a fingerprint returns the hash without
   an error and leaves the first run's record as it is. *)
C38_InterleavedRunsKeepFirstRecord ==
    [][/\ \A i, j \in 1..Len(store') : store'[i].entry_hash = store'[j].entry_hash => i = j
       /\ (lastOp'.op = "record_sync" /\ \E k \in 1..Len(store) : store[k].entry_hash = lastOp'.h) =>
            (ret' = Some(lastOp'.h) /\ store' = store)]_vars

C38_Witness ==
    /\ lastOp.op = "record_sync"
    /\ lastOp.dup
    /\ procs[1].idx = 1 /\ procs[1].pc = "loop"
    /\ procs[2].idx = 1 /\ procs[2].pc = "loop"
    /\ Len(store) = 1
    /\ store[1].tempo_worklog_id = RunExtras(2).tempo_worklog_id
    /\ ret = Some(store[1].entry_hash)

=============================================================================
